---- MODULE Spec2Model ----
(***************************************************************************)
(* Connector integration layer of the payment switch: the per-connector    *)
(* status mappers, response translators, auth resolvers and request        *)
(* builders of ACI, Fiserv, Nexinets, Noon and Globalpay.                  *)
(*                                                                         *)
(* Three specifications share the variables:                               *)
(*   Spec      - response translations applied, one after another, to the  *)
(*               RouterData of one attempt;                                *)
(*   SpecBuild - auth resolution and request building from one RouterData; *)
(*   SpecMap   - the bare status mappers applied to their vocabularies.    *)
(***************************************************************************)
EXTENDS Integers, Sequences, FiniteSets, TLC

VARIABLES
    rd,     \* the RouterData of the attempt (threaded through the calls)
    call,   \* the last call made: its name and its input
    ret     \* what the last call returned: Ok(value) or Err(ConnectorError)

vars == <<rd, call, ret>>

-----------------------------------------------------------------------------
(* Result and Option.  A string-valued Option uses the string "None"; a     *)
(* record-valued Option uses the record [kind |-> "None"].                  *)

Ok(v) == [ok |-> TRUE, val |-> v]
Err(e) == [ok |-> FALSE, val |-> e]

NoneRec == [kind |-> "None"]
Some(v) == [kind |-> "Some", val |-> v]

ConnectorError(kind, detail) == [kind |-> kind, detail |-> detail]

-----------------------------------------------------------------------------
(* Bounds of the model.                                                     *)

\* longest parameter list of an ACI redirect descriptor
MaxParams == 2
\* longest list of a Fiserv sync response
MaxSyncResponses == 2
\* longest transaction list of a Nexinets pre-auth/debit response
MaxTransactions == 1
\* longest transaction list of a Noon refund sync response
MaxRefundTransactions == 2

\* length of the longest description of a Noon order
MaxDescription == 51
MaxAmount == 120

\* most payment method data applied in turn to one vault operation
MaxUpdates == 3

\* most calls one client makes to the theme store
MaxCalls == 2

-----------------------------------------------------------------------------
(* Shared vocabulary.                                                       *)

Connectors == {"aci", "fiserv", "nexinets", "noon", "globalpay"}

AttemptStatus ==
    {"Started", "AuthenticationPending", "AuthenticationSuccessful",
     "AuthenticationFailed", "Authorizing", "Authorized", "AuthorizationFailed",
     "Charged", "CaptureFailed", "Pending", "Failure", "Voided", "VoidFailed"}

RefundStatus == {"Success", "Failure", "Pending"}

CaptureMethod == {"Automatic", "SequentialAutomatic", "Manual", "ManualMultiple"}

PaymentFlows == {"Authorize", "PSync", "Capture", "Void"}
RefundFlows == {"Execute", "RSync"}

TxnIds == {"tx1"}
OrderIds == {"ord1"}
RefundIds == {"rf1", "rf2"}
ConnectorRefundIds == {"crf1", "crf2"}
MandateIds == {"reg1"}
Urls == {"https://acs.example/3ds"}

EmptyMap == [n \in {} |-> "None"]

\* RedirectForm::from((url, method)) for a URL without a query string
RedirectFormFrom(url, method) ==
    [kind |-> "Form", endpoint |-> url, method |-> method, form_fields |-> EmptyMap]

\* ErrorResponse::default(), the response slot of a freshly built RouterData
ErrorResponseDefault ==
    [code |-> "No error code", message |-> "No error message", reason |-> "None",
     status_code |-> 500, attempt_status |-> "None",
     connector_transaction_id |-> "None"]

\* MandateReference built from a connector identifier (the other fields None)
MandateReference(id) ==
    [kind |-> "MandateReference", connector_mandate_id |-> id,
     payment_method_id |-> "None", mandate_metadata |-> "None",
     connector_mandate_request_reference_id |-> "None"]

ConnectorTransactionId(id) == [kind |-> "ConnectorTransactionId", id |-> id]
NoResponseId == [kind |-> "NoResponseId", id |-> "None"]

TransactionResponse(id, redirect, mandate, metadata, reference) ==
    [kind |-> "TransactionResponse",
     resource_id |-> id,
     redirection_data |-> redirect,
     mandate_reference |-> mandate,
     connector_metadata |-> metadata,
     connector_response_reference_id |-> reference]

RefundsResponseData(connector_refund_id, refund_status) ==
    [kind |-> "RefundsResponseData",
     connector_refund_id |-> connector_refund_id,
     refund_status |-> refund_status]

-----------------------------------------------------------------------------
(* Connector credentials. A secret is the sequence of its bytes.            *)

\* ConnectorAuthType: a variant has the secrets its kind names, <<>> stands
\* for a field the variant does not have
AuthType(kind, api_key, key1, api_secret, key2) ==
    [kind |-> kind, api_key |-> api_key, key1 |-> key1,
     api_secret |-> api_secret, key2 |-> key2]

\* every variant, with two values of api_key and of key1
ConnectorAuthTypes ==
    LET ApiKeys == {<<115>>, <<115, 107>>}
        Key1s == {<<109>>, <<109, 49>>}
        ApiSecrets == {<<120, 120>>}
        Key2s == {<<121>>}
    IN {AuthType(k, <<>>, <<>>, <<>>, <<>>) :
           k \in {"TemporaryAuth", "CurrencyAuthKey", "CertificateAuth", "NoKey"}}
       \cup {AuthType("HeaderKey", a, <<>>, <<>>, <<>>) : a \in ApiKeys}
       \cup {AuthType("BodyKey", a, k, <<>>, <<>>) : a \in ApiKeys, k \in Key1s}
       \cup {AuthType("SignatureKey", a, k, x, <<>>) :
               a \in ApiKeys, k \in Key1s, x \in ApiSecrets}
       \cup {AuthType("MultiAuthKey", a, k, x, y) :
               a \in ApiKeys, k \in Key1s, x \in ApiSecrets, y \in Key2s}

FailedToObtainAuthType == Err(ConnectorError("FailedToObtainAuthType", "None"))

\* the standard base64 alphabet
Base64Alphabet ==
    <<"A", "B", "C", "D", "E", "F", "G", "H", "I", "J", "K", "L", "M", "N", "O",
      "P", "Q", "R", "S", "T", "U", "V", "W", "X", "Y", "Z", "a", "b", "c", "d",
      "e", "f", "g", "h", "i", "j", "k", "l", "m", "n", "o", "p", "q", "r", "s",
      "t", "u", "v", "w", "x", "y", "z", "0", "1", "2", "3", "4", "5", "6", "7",
      "8", "9", "+", "/">>

\* consts::BASE64_ENGINE.encode: three bytes to four characters, padded
RECURSIVE Base64Encode(_)
Base64Encode(b) ==
    LET Char(n) == Base64Alphabet[n + 1]
    IN IF Len(b) = 0 THEN <<>>
       ELSE IF Len(b) = 1
       THEN <<Char(b[1] \div 4), Char((b[1] % 4) * 16), "=", "=">>
       ELSE IF Len(b) = 2
       THEN <<Char(b[1] \div 4),
              Char((b[1] % 4) * 16 + (b[2] \div 16)),
              Char((b[2] % 16) * 4), "=">>
       ELSE <<Char(b[1] \div 4),
              Char((b[1] % 4) * 16 + (b[2] \div 16)),
              Char((b[2] % 16) * 4 + (b[3] \div 64)),
              Char(b[3] % 64)>>
            \o Base64Encode(SubSeq(b, 4, Len(b)))

\* TryFrom<&ConnectorAuthType> for AciAuthType
AciAuthTypeTryFrom(item) ==
    IF item.kind = "BodyKey"
    THEN Ok([api_key |-> item.api_key, entity_id |-> item.key1])
    ELSE FailedToObtainAuthType

\* TryFrom<&ConnectorAuthType> for FiservAuthType
FiservAuthTypeTryFrom(auth_type) ==
    IF auth_type.kind = "SignatureKey"
    THEN Ok([api_key |-> auth_type.api_key,
             merchant_account |-> auth_type.key1,
             api_secret |-> auth_type.api_secret])
    ELSE FailedToObtainAuthType

\* the auth header built from the secrets the wrong way round
NexinetsAuthHeader_swapped(key1, api_key) ==
    <<"B", "a", "s", "i", "c", " ">> \o Base64Encode(api_key \o <<58>> \o key1)

\* format!("Basic {}", BASE64_ENGINE.encode(format!("{}:{}", key1, api_key))),
\* ":" being the byte 58
NexinetsAuthHeader(key1, api_key) ==
    <<"B", "a", "s", "i", "c", " ">> \o Base64Encode(key1 \o <<58>> \o api_key)

\* TryFrom<&ConnectorAuthType> for NexinetsAuthType
NexinetsAuthTypeTryFrom(auth_type) ==
    IF auth_type.kind = "BodyKey"
    THEN Ok([api_key |-> NexinetsAuthHeader(auth_type.key1, auth_type.api_key)])
    ELSE FailedToObtainAuthType

\* TryFrom<&ConnectorAuthType> for NoonAuthType
NoonAuthTypeTryFrom(auth_type) ==
    IF auth_type.kind = "SignatureKey"
    THEN Ok([api_key |-> auth_type.api_key,
             application_identifier |-> auth_type.api_secret,
             business_identifier |-> auth_type.key1])
    ELSE FailedToObtainAuthType

\* TryFrom<&ConnectorAuthType> for GlobalpayAuthType
GlobalpayAuthTypeTryFrom(auth_type) ==
    IF auth_type.kind = "BodyKey"
    THEN Ok([app_id |-> auth_type.key1, key |-> auth_type.api_key])
    ELSE FailedToObtainAuthType

-----------------------------------------------------------------------------
(* Requests: what the request builders read of a RouterData.                *)

\* PaymentMethodData, with the sub-variants of Wallet and BankRedirect; an
\* Ideal redirect names no bank, a bank Nexinets has a BIC for, or one it
\* has none for
PaymentMethodDatas ==
    LET WalletVariants ==
            {"MbWayRedirect", "AliPayRedirect", "AliPayHkRedirect",
             "AmazonPayRedirect", "Paysera", "Skrill", "MomoRedirect",
             "KakaoPayRedirect", "GoPayRedirect", "GcashRedirect", "ApplePay",
             "ApplePayThirdPartySdk", "DanaRedirect", "GooglePay",
             "BluecodeRedirect", "GooglePayThirdPartySdk", "MobilePayRedirect",
             "PaypalRedirect", "PaypalSdk", "Paze", "SamsungPay",
             "TwintRedirect", "VippsRedirect", "TouchNGoRedirect",
             "WeChatPayRedirect", "WeChatPayQr", "CashappQr", "SwishQr",
             "AliPayQr", "ApplePayRedirect", "GooglePayRedirect", "Mifinity",
             "RevolutPay"}
        BankRedirectVariants ==
            {"Eps", "Eft", "Giropay", "Sofort", "Przelewy24", "Interac",
             "Trustly", "Bizum", "Blik", "BancontactCard",
             "OnlineBankingCzechRepublic", "OnlineBankingFinland",
             "OnlineBankingFpx", "OnlineBankingPoland", "OnlineBankingSlovakia",
             "OnlineBankingThailand", "LocalBankRedirect", "OpenBankingUk"}
        OtherVariants ==
            {"Card", "PayLater", "MandatePayment", "Crypto", "BankDebit",
             "BankTransfer", "Reward", "RealTimePayment", "MobilePayment",
             "GiftCard", "CardRedirect", "Upi", "Voucher", "OpenBanking",
             "CardToken", "NetworkToken", "CardDetailsForNetworkTransactionId"}
    IN [kind : OtherVariants, sub : {"None"}, bank_name : {"None"}]
       \cup [kind : {"Wallet"}, sub : WalletVariants, bank_name : {"None"}]
       \cup [kind : {"BankRedirect"}, sub : BankRedirectVariants,
             bank_name : {"None"}]
       \cup [kind : {"BankRedirect"}, sub : {"Ideal"},
             bank_name : {"None", "Ing", "Handelsbanken"}]

\* request.mandate_id: absent, without and with a connector mandate id
MandateIdValues ==
    {NoneRec} \cup [kind : {"Some"}, connector_mandate_id : {"None"} \cup MandateIds]

\* request.capture_method as the builders see it
RequestCaptureMethods == {"None", "Scheduled"} \cup CaptureMethod

MissingRequiredField(field_name) ==
    Err(ConnectorError("MissingRequiredField", field_name))

NotImplemented(message) == Err(ConnectorError("NotImplemented", message))

\* utils::get_unimplemented_payment_method_error_message
get_unimplemented_payment_method_error_message(connector) ==
    "Selected payment method through " \o connector

\* the RouterData accessors that fail when the field is absent
\* (get_billing_country, get_billing_email, get_billing_phone,
\* get_customer_id, get_router_return_url, get_connector_meta, ...)
get_required(value, field_name) ==
    IF value = "None" THEN MissingRequiredField(field_name) ELSE Ok(value)

\* PaymentsAuthorizeRequestData::connector_mandate_id
connector_mandate_id(request) ==
    IF request.mandate_id.kind = "None" THEN "None"
    ELSE request.mandate_id.connector_mandate_id

\* PaymentsAuthorizeRequestData::is_mandate_payment
is_mandate_payment(request) ==
    request.setup_mandate_details \/ connector_mandate_id(request) # "None"

\* the first error of a sequence of results, Ok(TRUE) when there is none
RECURSIVE FirstErr(_)
FirstErr(results) ==
    IF results = <<>> THEN Ok(TRUE)
    ELSE IF ~Head(results).ok THEN Head(results)
    ELSE FirstErr(Tail(results))

-----------------------------------------------------------------------------
(* ACI                                                                      *)

\* aci_result_codes: samples of the three lists, one code that is on two of
\* them, and one code that is on none
FAILURE_CODES == {"800.100.151", "100.400.500"}
PENDING_CODES == {"000.200.000", "100.400.500"}
SUCCESSFUL_CODES == {"000.000.000"}
ResultCodes == FAILURE_CODES \cup PENDING_CODES \cup SUCCESSFUL_CODES \cup {"999.999.999"}

\* AciPaymentsResponse, with its AciRedirectionData and the Parameters of it
AciPaymentsResponse ==
    LET Parameters == [name : {"PaReq", "MD"}, value : {"xyz", "abc"}]
        AciRedirectionData ==
            [kind : {"Some"}, method : {"None", "Get", "Post"},
             parameters : UNION {[1..n -> Parameters] : n \in 0..MaxParams},
             url : Urls]
    IN [id : TxnIds, registration_id : {"None"} \cup MandateIds,
        code : ResultCodes, redirect : {NoneRec} \cup AciRedirectionData]

AciCaptureResponse == [id : TxnIds, referenced_id : {"tx0"}, code : ResultCodes]

AciRefundResponse == [id : ConnectorRefundIds, code : ResultCodes]

\* impl GetCaptureMethod for PaymentsAuthorizeData / PaymentsSyncData /
\* PaymentsCancelData
get_capture_method(data) ==
    IF data.flow = "Void" THEN "None" ELSE data.request.capture_method

map_aci_attempt_status(item, auto_capture) ==
    CASE item = "Succeeded" -> (IF auto_capture THEN "Charged" ELSE "Authorized")
      [] item = "Failed" -> "Failure"
      [] item = "Pending" -> "Authorizing"
      [] item = "RedirectShopper" -> "AuthenticationPending"

\* from_str with a last arm that takes an unlisted code for a success
AciPaymentStatus_from_str_unlisted(s) ==
    IF s \in FAILURE_CODES THEN Ok("Failed")
    ELSE IF s \in PENDING_CODES THEN Ok("Pending")
    ELSE Ok("Succeeded")

\* impl FromStr for AciPaymentStatus
AciPaymentStatus_from_str(s) ==
    IF s \in FAILURE_CODES THEN Ok("Failed")
    ELSE IF s \in PENDING_CODES THEN Ok("Pending")
    ELSE IF s \in SUCCESSFUL_CODES THEN Ok("Succeeded")
    ELSE Err(ConnectorError("UnexpectedResponseError", s))

\* a map built from the parameter list that keeps the first entry of a name
HashMapFromIter_first_wins(params) ==
    [k \in {params[i].name : i \in 1..Len(params)} |->
        params[CHOOSE i \in 1..Len(params) :
                   /\ params[i].name = k
                   /\ \A j \in 1..(i - 1) : params[j].name # k].value]

\* HashMap::from_iter over the parameter list: a later entry replaces an
\* earlier one of the same name
RECURSIVE HashMapFromIter(_)
HashMapFromIter(params) ==
    IF params = <<>> THEN EmptyMap
    ELSE LET n == Len(params)
             init == HashMapFromIter(SubSeq(params, 1, n - 1))
             last == params[n]
         IN [k \in (DOMAIN init) \cup {last.name} |->
                IF k = last.name THEN last.value ELSE init[k]]

AciRefundStatus_from_str(s) ==
    IF s \in FAILURE_CODES THEN Ok("Failed")
    ELSE IF s \in PENDING_CODES THEN Ok("Pending")
    ELSE IF s \in SUCCESSFUL_CODES THEN Ok("Succeeded")
    ELSE Err(ConnectorError("UnexpectedResponseError", s))

\* From<AciRefundStatus> for enums::RefundStatus
AciRefundStatusFrom(item) ==
    CASE item = "Succeeded" -> "Success"
      [] item = "Failed" -> "Failure"
      [] item = "Pending" -> "Pending"

\* get_transaction_details sending the amount without its minor units
get_transaction_details_rounded(auth_type, request) ==
    LET auth == AciAuthTypeTryFrom(auth_type)
    IN IF ~auth.ok THEN auth
       ELSE Ok([entity_id |-> auth.val.entity_id, amount |-> "10",
                currency |-> request.currency, payment_type |-> "Debit"])

\* get_transaction_details
get_transaction_details(auth_type, request) ==
    LET auth == AciAuthTypeTryFrom(auth_type)
    IN IF ~auth.ok THEN auth
       ELSE Ok([entity_id |-> auth.val.entity_id, amount |-> request.amount,
                currency |-> request.currency, payment_type |-> "Debit"])

\* get_instruction_details
get_instruction_details(request) ==
    IF request.setup_mandate_details
    THEN [kind |-> "Some", mode |-> "Initial", transaction_type |-> "Unscheduled",
          source |-> "CardholderInitiatedTransaction",
          create_registration |-> "true"]
    ELSE IF request.mandate_id.kind # "None"
    THEN [kind |-> "Some", mode |-> "Repeated", transaction_type |-> "Unscheduled",
          source |-> "MerchantInitiatedTransaction", create_registration |-> "None"]
    ELSE NoneRec

\* TryFrom<(&WalletData, &PaymentsAuthorizeRouterData)> for PaymentDetails
AciWalletPaymentDetails(request) ==
    LET sub == request.payment_method_data.sub
        phone_details == get_required(request.billing_phone, "billing.phone")
        WalletPMData(payment_brand, account_id) ==
            [kind |-> "Wallet", payment_brand |-> payment_brand,
             account_id |-> account_id]
    IN CASE sub = "MbWayRedirect" ->
              IF ~phone_details.ok THEN phone_details
              ELSE Ok(WalletPMData("Mbway", phone_details.val))
         [] sub = "AliPayRedirect" -> Ok(WalletPMData("AliPay", "None"))
         [] OTHER -> NotImplemented("Payment method")

\* TryFrom<(&AciRouterData<..>, &BankRedirectData)> for PaymentDetails
AciBankRedirectPaymentDetails(data, request) ==
    LET pmd == request.payment_method_data
        country == get_required(request.billing_country, "billing.address.country")
        email == get_required(request.billing_email, "billing.email")
        customer == get_required(request.customer_id, "customer_id")
        Details(brand, needs, bank_account_country, bank_name, billing_country,
                customer_id, transaction_id, customer_email) ==
            LET failed == FirstErr(needs)
            IN IF ~failed.ok THEN failed
               ELSE Ok([kind |-> "BankRedirect",
                        payment_brand |-> brand,
                        bank_account_country |-> bank_account_country,
                        bank_account_bank_name |-> bank_name,
                        billing_country |-> billing_country,
                        merchant_customer_id |-> customer_id,
                        merchant_transaction_id |-> transaction_id,
                        customer_email |-> customer_email])
    IN CASE pmd.sub \in {"Eps", "Eft", "Giropay", "Sofort"} ->
              Details(CASE pmd.sub = "Eps" -> "Eps"
                        [] pmd.sub = "Eft" -> "Eft"
                        [] pmd.sub = "Giropay" -> "Giropay"
                        [] pmd.sub = "Sofort" -> "Sofortueberweisung",
                      <<country>>, country.val, "None", "None", "None", "None",
                      "None")
         [] pmd.sub = "Ideal" ->
              Details("Ideal",
                      <<country,
                        IF pmd.bank_name = "None"
                        THEN MissingRequiredField("ideal.bank_name")
                        ELSE Ok(pmd.bank_name)>>,
                      country.val, pmd.bank_name, "None", "None", "None", "None")
         [] pmd.sub = "Przelewy24" ->
              Details("Przelewy", <<email>>, "None", "None", "None", "None",
                      "None", email.val)
         [] pmd.sub = "Interac" ->
              Details("InteracOnline", <<country, email>>, country.val, "None",
                      "None", "None", "None", email.val)
         [] pmd.sub = "Trustly" ->
              Details("Trustly", <<country, customer>>, "None", "None",
                      country.val, customer.val,
                      data.connector_request_reference_id, "None")
         [] OTHER -> NotImplemented("Payment method")

-----------------------------------------------------------------------------
(* Fiserv                                                                   *)

FiservPaymentStatus ==
    {"Succeeded", "Failed", "Captured", "Declined", "Voided", "Authorized",
     "Processing"}

\* gateway_response of FiservPaymentsResponse / RefundResponse
FiservPaymentsResponse ==
    [transaction_state : FiservPaymentStatus, transaction_id : TxnIds,
     order_id : OrderIds]

FiservSyncResponse ==
    UNION {[1..n -> FiservPaymentsResponse] : n \in 0..MaxSyncResponses}

\* From<FiservPaymentStatus> for enums::AttemptStatus
FiservAttemptStatusFrom(item) ==
    CASE item \in {"Captured", "Succeeded"} -> "Charged"
      [] item \in {"Declined", "Failed"} -> "Failure"
      [] item = "Processing" -> "Authorizing"
      [] item = "Voided" -> "Voided"
      [] item = "Authorized" -> "Authorized"

\* From<FiservPaymentStatus> for enums::RefundStatus
FiservRefundStatusFrom(item) ==
    CASE item \in {"Succeeded", "Authorized", "Captured"} -> "Success"
      [] item \in {"Declined", "Failed"} -> "Failure"
      [] item \in {"Voided", "Processing"} -> "Pending"

\* metadata.parse_value("FiservSessionObject")
FiservSessionObjectParse(metadata) ==
    IF metadata = "valid" THEN Ok([terminal_id |-> "term1"])
    ELSE Err(ConnectorError("InvalidConnectorConfig",
                            "Merchant connector account metadata"))

\* TryFrom<&FiservRouterData<&PaymentsCaptureRouterData>> for FiservCaptureRequest
\* and TryFrom<&FiservRouterData<&RefundsRouterData<F>>> for FiservRefundRequest:
\* the capture request carries transaction details, the refund request none
FiservCaptureOrRefundRequestTryFrom(data, request, capture) ==
    LET auth == FiservAuthTypeTryFrom(data.connector_auth_type)
        session == FiservSessionObjectParse(request.connector_meta_data)
        merchant_details == [merchant_id |-> auth.val.merchant_account,
                             terminal_id |-> session.val.terminal_id]
        amount == [total |-> request.amount, currency |-> request.currency]
    IN IF ~auth.ok THEN auth
       ELSE IF request.connector_meta_data = "None"
       THEN Err(ConnectorError("RequestEncodingFailed", "None"))
       ELSE IF ~session.ok THEN session
       ELSE IF capture
       THEN Ok([amount |-> amount,
                transaction_details |->
                    [capture_flag |-> TRUE, reversal_reason_code |-> "None",
                     merchant_transaction_id |->
                         data.connector_request_reference_id],
                merchant_details |-> merchant_details,
                reference_transaction_id |-> request.connector_transaction_id])
       ELSE Ok([amount |-> amount,
                merchant_details |-> merchant_details,
                reference_transaction_id |-> request.connector_transaction_id])

\* the sync builder reading the transaction id before the credentials
FiservSyncRequestTryFrom_id_first(data, reference_transaction_id, missing) ==
    LET auth == FiservAuthTypeTryFrom(data.connector_auth_type)
    IN IF reference_transaction_id = "None" THEN Err(ConnectorError(missing, "None"))
       ELSE IF ~auth.ok THEN auth
       ELSE Ok([merchant_details |->
                    [merchant_id |-> auth.val.merchant_account,
                     terminal_id |-> "None"],
                reference_transaction_id |-> reference_transaction_id])

\* TryFrom<&PaymentsSyncRouterData> for FiservSyncRequest (the transaction id,
\* MissingConnectorTransactionID) and TryFrom<&RefundSyncRouterData> for
\* FiservSyncRequest (the connector refund id, RequestEncodingFailed)
FiservSyncRequestTryFrom(data, reference_transaction_id, missing) ==
    LET auth == FiservAuthTypeTryFrom(data.connector_auth_type)
    IN IF ~auth.ok THEN auth
       ELSE IF reference_transaction_id = "None" THEN Err(ConnectorError(missing, "None"))
       ELSE Ok([merchant_details |->
                    [merchant_id |-> auth.val.merchant_account,
                     terminal_id |-> "None"],
                reference_transaction_id |-> reference_transaction_id])

-----------------------------------------------------------------------------
(* Nexinets                                                                 *)

NexinetsPaymentStatus ==
    {"Success", "Pending", "Ok", "Failure", "Declined", "InProgress", "Expired",
     "Aborted"}

NexinetsTransactionType == {"Preauth", "Debit", "Capture", "Cancel"}

\* NexinetsPreAuthOrDebitResponse, with its list of NexinetsTransaction
NexinetsPreAuthOrDebitResponse ==
    LET NexinetsTransaction ==
            [transaction_id : TxnIds, status : NexinetsPaymentStatus]
    IN [order_id : OrderIds,
        transaction_type : NexinetsTransactionType,
        transactions :
            UNION {[1..n -> NexinetsTransaction] : n \in 0..MaxTransactions},
        payment_instrument_id : {"None"} \cup MandateIds,
        redirect_url : {"None"} \cup Urls]

NexinetsPaymentResponse ==
    [transaction_id : TxnIds, status : NexinetsPaymentStatus, order_id : OrderIds,
     transaction_type : NexinetsTransactionType]

NexinetsRefundStatus == {"Success", "Ok", "Failure", "Declined", "InProgress"}

NexinetsRefundResponse ==
    [transaction_id : ConnectorRefundIds, status : NexinetsRefundStatus]

\* get_status taking Ok for Pending whatever the transaction type
get_status_ok_pending(status, method) ==
    CASE status = "Success" ->
            (CASE method = "Preauth" -> "Authorized"
               [] method \in {"Debit", "Capture"} -> "Charged"
               [] method = "Cancel" -> "Voided")
      [] status \in {"Declined", "Failure", "Expired", "Aborted"} ->
            (CASE method = "Preauth" -> "AuthorizationFailed"
               [] method \in {"Debit", "Capture"} -> "CaptureFailed"
               [] method = "Cancel" -> "VoidFailed")
      [] status = "Ok" -> "Pending"
      [] status = "Pending" -> "AuthenticationPending"
      [] status = "InProgress" -> "Pending"

\* get_status
get_status(status, method) ==
    CASE status = "Success" ->
            (CASE method = "Preauth" -> "Authorized"
               [] method \in {"Debit", "Capture"} -> "Charged"
               [] method = "Cancel" -> "Voided")
      [] status \in {"Declined", "Failure", "Expired", "Aborted"} ->
            (CASE method = "Preauth" -> "AuthorizationFailed"
               [] method \in {"Debit", "Capture"} -> "CaptureFailed"
               [] method = "Cancel" -> "VoidFailed")
      [] status = "Ok" -> (IF method = "Preauth" THEN "Authorized" ELSE "Pending")
      [] status = "Pending" -> "AuthenticationPending"
      [] status = "InProgress" -> "Pending"

\* serde_json::to_value(NexinetsPaymentsMetadata { .. })
NexinetsPaymentsMetadata(transaction_id, order_id, psync_flow) ==
    [transaction_id |-> transaction_id, order_id |-> order_id,
     psync_flow |-> psync_flow]

\* From<RefundStatus> for enums::RefundStatus
NexinetsRefundStatusFrom(item) ==
    CASE item = "Success" -> "Success"
      [] item \in {"Failure", "Declined"} -> "Failure"
      [] item \in {"InProgress", "Ok"} -> "Pending"

\* TryFrom<&enums::BankNames> for NexinetsBIC
NexinetsBICTryFrom(bank) ==
    IF bank \in {"AbnAmro", "AsnBank", "Bunq", "Ing", "Knab", "Rabobank",
                 "Regiobank", "SnsBank", "TriodosBank", "VanLanschot"}
    THEN Ok(bank)
    ELSE Err(ConnectorError("FlowNotSupported", bank))

\* get_card_data
get_card_data(request) ==
    IF is_mandate_payment(request)
    THEN [kind |-> "Card",
          card_data |->
              IF request.off_session = "true"
              THEN [kind |-> "PaymentInstrument",
                    payment_instrument_id |-> connector_mandate_id(request)]
              ELSE [kind |-> "CardDetails", payment_instrument_id |-> "None"],
          cof_contract |-> "Unscheduled"]
    ELSE [kind |-> "Card",
          card_data |-> [kind |-> "CardDetails", payment_instrument_id |-> "None"],
          cof_contract |-> "None"]

\* get_wallet_details
get_wallet_details(wallet) ==
    CASE wallet = "PaypalRedirect" -> Ok([payment |-> NoneRec, product |-> "Paypal"])
      [] wallet = "ApplePay" ->
           Ok([payment |-> [kind |-> "Wallet"], product |-> "Applepay"])
      [] OTHER ->
           NotImplemented(get_unimplemented_payment_method_error_message("nexinets"))

\* get_payment_details_and_product with the default product in its last arm
get_payment_details_and_product_defaulted(request) ==
    LET pmd == request.payment_method_data
        bic == IF pmd.bank_name = "None" THEN Ok("None")
               ELSE NexinetsBICTryFrom(pmd.bank_name)
    IN CASE pmd.kind = "Card" ->
              Ok([payment |-> get_card_data(request), product |-> "Creditcard"])
         [] pmd.kind = "Wallet" -> get_wallet_details(pmd.sub)
         [] pmd.kind = "BankRedirect" /\ pmd.sub = "Eps" ->
              Ok([payment |-> NoneRec, product |-> "Eps"])
         [] pmd.kind = "BankRedirect" /\ pmd.sub = "Giropay" ->
              Ok([payment |-> NoneRec, product |-> "Giropay"])
         [] pmd.kind = "BankRedirect" /\ pmd.sub = "Ideal" ->
              IF ~bic.ok THEN bic
              ELSE Ok([payment |-> [kind |-> "BankRedirects", bic |-> bic.val],
                       product |-> "Ideal"])
         [] pmd.kind = "BankRedirect" /\ pmd.sub = "Sofort" ->
              Ok([payment |-> NoneRec, product |-> "Sofort"])
         [] OTHER -> Ok([payment |-> NoneRec, product |-> "Creditcard"])

\* get_payment_details_and_product
get_payment_details_and_product(request) ==
    LET pmd == request.payment_method_data
        bic == IF pmd.bank_name = "None" THEN Ok("None")
               ELSE NexinetsBICTryFrom(pmd.bank_name)
    IN CASE pmd.kind = "Card" ->
              Ok([payment |-> get_card_data(request), product |-> "Creditcard"])
         [] pmd.kind = "Wallet" -> get_wallet_details(pmd.sub)
         [] pmd.kind = "BankRedirect" /\ pmd.sub = "Eps" ->
              Ok([payment |-> NoneRec, product |-> "Eps"])
         [] pmd.kind = "BankRedirect" /\ pmd.sub = "Giropay" ->
              Ok([payment |-> NoneRec, product |-> "Giropay"])
         [] pmd.kind = "BankRedirect" /\ pmd.sub = "Ideal" ->
              IF ~bic.ok THEN bic
              ELSE Ok([payment |-> [kind |-> "BankRedirects", bic |-> bic.val],
                       product |-> "Ideal"])
         [] pmd.kind = "BankRedirect" /\ pmd.sub = "Sofort" ->
              Ok([payment |-> NoneRec, product |-> "Sofort"])
         [] OTHER ->
              NotImplemented(
                  get_unimplemented_payment_method_error_message("nexinets"))

-----------------------------------------------------------------------------
(* Noon                                                                     *)

NoonPaymentStatus ==
    {"Initiated", "Authorized", "Captured", "PartiallyCaptured",
     "PartiallyRefunded", "PaymentInfoAdded", "ThreeDsEnrollInitiated",
     "ThreeDsEnrollChecked", "ThreeDsResultVerified", "MarkedForReview",
     "Authenticated", "PartiallyReversed", "Pending", "Cancelled", "Failed",
     "Refunded", "Expired", "Reversed", "Rejected", "Locked"}

\* NoonPaymentsResponse.result with its NoonPaymentsOrderResponse, and the
\* HTTP status it came with
NoonPaymentsResponse ==
    LET NoonPaymentsOrderResponse ==
            [status : NoonPaymentStatus, id : {42}, error_code : {0, 19001},
             error_message : {"None", "Payment declined"},
             reference : {"None", "ref1"}]
    IN [order : NoonPaymentsOrderResponse,
        checkout_data : {"None"} \cup Urls,
        subscription : {"None"} \cup MandateIds,
        http_code : {200}]

NoonWebhookObject == [order_status : NoonPaymentStatus, order_id : {42}]

NoonRefundStatus == {"Success", "Failed", "Pending"}

NoonRefundResponse ==
    [id : ConnectorRefundIds, status : NoonRefundStatus, result_code : {0},
     class_description : {"cls"}, message : {"msg"}, http_code : {200}]

\* RefundSyncResponse.result, with its list of NoonRefundResponseTransactions
NoonRefundSyncResponse ==
    LET NoonRefundResponseTransactions ==
            [id : ConnectorRefundIds, status : NoonRefundStatus,
             transaction_reference : {"None"} \cup RefundIds]
    IN [transactions :
            UNION {[1..n -> NoonRefundResponseTransactions] :
                       n \in 0..MaxRefundTransactions},
        result_code : {0}, class_description : {"cls"}, message : {"msg"},
        http_code : {200}]

\* u64::to_string / u32::to_string
RECURSIVE to_string(_)
to_string(n) ==
    LET digit == <<"0", "1", "2", "3", "4", "5", "6", "7", "8", "9">>[(n % 10) + 1]
    IN IF n < 10 THEN digit ELSE to_string(n \div 10) \o digit

\* get_payment_status taking Locked for Pending
get_payment_status_locked_pending(item, current_status) ==
    CASE item = "Authorized" -> "Authorized"
      [] item \in {"Captured", "PartiallyCaptured", "PartiallyRefunded", "Refunded"} ->
            "Charged"
      [] item \in {"Reversed", "PartiallyReversed"} -> "Voided"
      [] item \in {"Cancelled", "Expired"} -> "AuthenticationFailed"
      [] item \in {"ThreeDsEnrollInitiated", "ThreeDsEnrollChecked"} ->
            "AuthenticationPending"
      [] item = "ThreeDsResultVerified" -> "AuthenticationSuccessful"
      [] item \in {"Failed", "Rejected"} -> "Failure"
      [] item \in {"Pending", "MarkedForReview", "Locked"} -> "Pending"
      [] item \in {"Initiated", "PaymentInfoAdded", "Authenticated"} -> "Started"

get_payment_status(item, current_status) ==
    CASE item = "Authorized" -> "Authorized"
      [] item \in {"Captured", "PartiallyCaptured", "PartiallyRefunded", "Refunded"} ->
            "Charged"
      [] item \in {"Reversed", "PartiallyReversed"} -> "Voided"
      [] item \in {"Cancelled", "Expired"} -> "AuthenticationFailed"
      [] item \in {"ThreeDsEnrollInitiated", "ThreeDsEnrollChecked"} ->
            "AuthenticationPending"
      [] item = "ThreeDsResultVerified" -> "AuthenticationSuccessful"
      [] item \in {"Failed", "Rejected"} -> "Failure"
      [] item \in {"Pending", "MarkedForReview"} -> "Pending"
      [] item \in {"Initiated", "PaymentInfoAdded", "Authenticated"} -> "Started"
      [] item = "Locked" -> current_status

\* From<RefundStatus> for enums::RefundStatus
NoonRefundStatusFrom(item) ==
    CASE item = "Success" -> "Success"
      [] item = "Failed" -> "Failure"
      [] item = "Pending" -> "Pending"

\* utils::is_refund_failure
is_refund_failure(status) == status = "Failure"

NoonRefundErrorResponse(response, transaction_id) ==
    [code |-> to_string(response.result_code),
     message |-> response.class_description,
     reason |-> response.message,
     status_code |-> response.http_code,
     attempt_status |-> "None",
     connector_transaction_id |-> transaction_id]

\* the longest name Noon accepts
NoonNameLimit == 50

\* str::trim, leading
RECURSIVE trim_start(_)
trim_start(chars) ==
    IF chars # <<>> /\ Head(chars) = " " THEN trim_start(Tail(chars)) ELSE chars

\* str::trim, trailing
RECURSIVE trim_end(_)
trim_end(chars) ==
    IF chars # <<>> /\ chars[Len(chars)] = " "
    THEN trim_end(SubSeq(chars, 1, Len(chars) - 1)) ELSE chars

\* str::replace("  ", " "): the non-overlapping pairs, left to right, once
RECURSIVE replace_double_space(_)
replace_double_space(chars) ==
    IF Len(chars) < 2 THEN chars
    ELSE IF chars[1] = " " /\ chars[2] = " "
    THEN <<" ">> \o replace_double_space(SubSeq(chars, 3, Len(chars)))
    ELSE <<chars[1]>> \o replace_double_space(Tail(chars))

\* the name of the order:
\* description.trim().replace("  ", " ").chars().take(50).collect()
NoonOrderName(description) ==
    LET replaced == replace_double_space(trim_end(trim_start(description)))
    IN SubSeq(replaced, 1,
              IF Len(replaced) < NoonNameLimit THEN Len(replaced)
              ELSE NoonNameLimit)

\* PaymentsAuthorizeRequestData::is_auto_capture
is_auto_capture(request) ==
    CASE request.capture_method \in {"Automatic", "SequentialAutomatic", "None"} ->
           Ok(TRUE)
      [] request.capture_method = "Manual" -> Ok(FALSE)
      [] OTHER -> Err(ConnectorError("CaptureMethodNotSupported", "None"))

-----------------------------------------------------------------------------
(* Globalpay                                                                *)

GlobalpayPaymentStatus ==
    {"Captured", "Declined", "Funded", "Initiated", "Pending", "Preauthorized",
     "Rejected", "Reversed"}

\* payment_method of the response: its message, apm.redirect_url ("None"
\* when apm or the url is absent, possibly empty or unparseable) and
\* card.brand_reference
GlobalpayPaymentsResponse ==
    LET PaymentMethod ==
            [kind : {"Some"}, message : {"None", "Declined by issuer"},
             redirect_url : {"None", "", "not a url"} \cup Urls,
             brand_reference : {"None"} \cup MandateIds]
    IN [status : GlobalpayPaymentStatus, id : TxnIds, reference : {"None", "ref1"},
        payment_method : {NoneRec} \cup PaymentMethod]

GlobalpayRefundResponse == [status : GlobalpayPaymentStatus, id : ConnectorRefundIds]

\* From<GlobalpayPaymentStatus> for enums::AttemptStatus
GlobalpayAttemptStatusFrom(item) ==
    CASE item \in {"Captured", "Funded"} -> "Charged"
      [] item \in {"Declined", "Rejected"} -> "Failure"
      [] item = "Preauthorized" -> "Authorized"
      [] item = "Reversed" -> "Voided"
      [] item = "Initiated" -> "AuthenticationPending"
      [] item = "Pending" -> "Pending"

\* From<GlobalpayPaymentStatus> for enums::RefundStatus
GlobalpayRefundStatusFrom(item) ==
    CASE item \in {"Captured", "Funded"} -> "Success"
      [] item \in {"Declined", "Rejected"} -> "Failure"
      [] item \in {"Initiated", "Pending"} -> "Pending"
      [] OTHER -> "Pending"

get_payment_response(status, response, redirection_data) ==
    LET pm == response.payment_method
        mandate_reference ==
            IF pm.kind = "None" THEN NoneRec
            ELSE IF pm.brand_reference = "None" THEN NoneRec
            ELSE MandateReference(pm.brand_reference)
    IN IF status = "Failure"
       THEN Err([ErrorResponseDefault EXCEPT
                 !.message = IF pm.kind # "None" /\ pm.message # "None"
                             THEN pm.message ELSE "No error message"])
       ELSE Ok(TransactionResponse(
                 ConnectorTransactionId(response.id), redirection_data,
                 mandate_reference, "None", response.reference))

\* utils::to_connector_meta_from_secret into GlobalPayMeta
to_connector_meta_from_secret(connector_meta_data) ==
    CASE connector_meta_data = "None" ->
           Err(ConnectorError("NoConnectorMetaData", "None"))
      [] connector_meta_data = "valid" -> Ok([account_name |-> "acct1"])
      [] OTHER -> Err(ConnectorError("InvalidConnectorConfig", "metadata"))

\* From<Option<enums::CaptureMethod>> for requests::CaptureMode
CaptureModeFrom(capture_method) ==
    CASE capture_method = "Manual" -> "Later"
      [] capture_method = "ManualMultiple" -> "Multiple"
      [] OTHER -> "Auto"

\* get_mandate_details that hands no stored mandate id on
get_mandate_details_unreferenced(request) ==
    IF is_mandate_payment(request)
    THEN [initiator |->
              IF request.off_session = "true" THEN "Merchant" ELSE "Payer",
          stored_credential |->
              [kind |-> "Some", model |-> "Recurring",
               sequence |-> IF connector_mandate_id(request) # "None"
                            THEN "Subsequent" ELSE "First"],
          brand_reference |-> "None"]
    ELSE [initiator |-> "None", stored_credential |-> NoneRec,
          brand_reference |-> "None"]

\* get_mandate_details
get_mandate_details(request) ==
    IF is_mandate_payment(request)
    THEN [initiator |->
              IF request.off_session = "true" THEN "Merchant" ELSE "Payer",
          stored_credential |->
              [kind |-> "Some", model |-> "Recurring",
               sequence |-> IF connector_mandate_id(request) # "None"
                            THEN "Subsequent" ELSE "First"],
          brand_reference |-> connector_mandate_id(request)]
    ELSE [initiator |-> "None", stored_credential |-> NoneRec,
          brand_reference |-> "None"]

\* get_payment_method_data, with get_wallet_data and
\* TryFrom<&domain::BankRedirectData> for PaymentMethodData
get_payment_method_data(request, brand_reference) ==
    LET pmd == request.payment_method_data
        get_wallet_data ==
            CASE pmd.sub = "PaypalRedirect" ->
                   Ok([kind |-> "Apm", provider |-> "Paypal"])
              [] pmd.sub = "GooglePay" ->
                   Ok([kind |-> "DigitalWallet", provider |-> "PayByGoogle"])
              [] OTHER -> NotImplemented("Payment method")
        bank_redirect ==
            IF pmd.sub \in {"Eps", "Giropay", "Ideal", "Sofort"}
            THEN Ok([kind |-> "Apm", provider |-> pmd.sub])
            ELSE NotImplemented("Payment method")
    IN CASE pmd.kind = "Card" ->
              Ok([kind |-> "Card", brand_reference |-> brand_reference])
         [] pmd.kind = "Wallet" -> get_wallet_data
         [] pmd.kind = "BankRedirect" -> bank_redirect
         [] OTHER -> NotImplemented("Payment methods")

\* get_return_url
get_return_url(request) ==
    IF request.payment_method_data.kind = "Wallet"
       /\ request.payment_method_data.sub = "PaypalRedirect"
    THEN request.complete_authorize_url
    ELSE request.router_return_url

-----------------------------------------------------------------------------
(* The attempt: a RouterData built by the orchestrator for one connector    *)
(* and one flow, then handed from one response translation to the next.    *)

\* the request of a flow, as far as the connector's translators read it:
\* the capture method (ACI, of an authorize or sync request) and the refund
\* id (Noon, of a refund sync request)
FlowRequests(connector, flow) ==
    [capture_method :
        IF connector = "aci" /\ flow \in {"Authorize", "PSync"}
        THEN {"None"} \cup CaptureMethod ELSE {"None"},
     refund_id :
        IF flow \in RefundFlows
        THEN (IF connector = "noon" /\ flow = "RSync" THEN RefundIds ELSE {"rf1"})
        ELSE {"None"}]

NewRouterData(connector, flow, request, status) ==
    [connector |-> connector,
     flow |-> flow,
     request |-> request,
     status |-> status,
     response |-> Err(ErrorResponseDefault),
     reference_id |-> "None",
     connector_request_reference_id |-> "ref1"]

NoCall == [op |-> "none", connector |-> "none", response |-> NoneRec]

Init ==
    /\ \E c \in Connectors, f \in PaymentFlows \cup RefundFlows, st \in AttemptStatus :
         \E rq \in FlowRequests(c, f) : rd = NewRouterData(c, f, rq, st)
    /\ call = NoCall
    /\ ret = Ok("none")

\* a translation of the connector's next response. try_from consumes the
\* RouterData: when it fails the flow ends with the error and nothing is
\* written, so the attempt is left as it was and is translated no further
Translate(op, response, result) ==
    /\ ret.ok
    /\ call' = [op |-> op, connector |-> rd.connector, response |-> response]
    /\ ret' = result
    /\ rd' = IF result.ok THEN result.val ELSE rd

\* TryFrom<ResponseRouterData<F, AciPaymentsResponse, Req, PaymentsResponseData>>
AciPayments ==
    /\ rd.connector = "aci"
    /\ rd.flow \in {"Authorize", "PSync", "Void"}
    /\ \E response \in AciPaymentsResponse :
         Translate("AciPayments", response,
             (LET data == rd
              IN LET redirection_data ==
                  (LET redirect == response.redirect
                   IN IF redirect.kind = "None" THEN NoneRec
                      ELSE [kind |-> "Form",
                            endpoint |-> redirect.url,
                            method |-> (IF redirect.method = "None" THEN "Post" ELSE redirect.method),
                            form_fields |-> HashMapFromIter(redirect.parameters)])
                     mandate_reference ==
                         (LET registration_id == response.registration_id
                          IN IF registration_id = "None" THEN NoneRec ELSE MandateReference(registration_id))
                     auto_capture == get_capture_method(data) \in {"Automatic", "None"}
                     parsed == AciPaymentStatus_from_str(response.code)
                 IN IF redirection_data.kind = "None" /\ ~parsed.ok THEN Err(parsed.val)
                    ELSE Ok([data EXCEPT
                             !.status = IF redirection_data.kind # "None"
                                        THEN map_aci_attempt_status("RedirectShopper", auto_capture)
                                        ELSE map_aci_attempt_status(parsed.val, auto_capture),
                             !.response = Ok(TransactionResponse(
                                              ConnectorTransactionId(response.id),
                                              redirection_data, mandate_reference,
                                              "None", response.id))])))

\* TryFrom<ResponseRouterData<F, AciCaptureResponse, T, PaymentsResponseData>>
AciCapture ==
    /\ rd.connector = "aci"
    /\ rd.flow = "Capture"
    /\ \E response \in AciCaptureResponse :
         Translate("AciCapture", response,
             (LET data == rd
              IN LET parsed == AciPaymentStatus_from_str(response.code)
                 IN IF ~parsed.ok THEN Err(parsed.val)
                    ELSE Ok([data EXCEPT
                             !.status = map_aci_attempt_status(parsed.val, FALSE),
                             !.reference_id = response.referenced_id,
                             !.response = Ok(TransactionResponse(
                                              ConnectorTransactionId(response.id),
                                              NoneRec, NoneRec, "None",
                                              response.referenced_id))])))

\* TryFrom<RefundsResponseRouterData<F, AciRefundResponse>>
AciRefund ==
    /\ rd.connector = "aci"
    /\ rd.flow \in RefundFlows
    /\ \E response \in AciRefundResponse :
         Translate("AciRefund", response,
             (LET data == rd
              IN LET parsed == AciRefundStatus_from_str(response.code)
                 IN IF ~parsed.ok THEN Err(parsed.val)
                    ELSE Ok([data EXCEPT
                             !.response = Ok(RefundsResponseData(
                                              response.id, AciRefundStatusFrom(parsed.val)))])))

\* TryFrom<ResponseRouterData<F, FiservPaymentsResponse, T, PaymentsResponseData>>
FiservPayments ==
    /\ rd.connector = "fiserv"
    /\ rd.flow \in {"Authorize", "Capture", "Void"}
    /\ \E response \in FiservPaymentsResponse :
         Translate("FiservPayments", response,
             (LET data == rd
              IN Ok([data EXCEPT
                     !.status = FiservAttemptStatusFrom(response.transaction_state),
                     !.response = Ok(TransactionResponse(
                                      ConnectorTransactionId(response.transaction_id),
                                      NoneRec, NoneRec, "None", response.order_id))])))

\* TryFrom<ResponseRouterData<F, FiservSyncResponse, T, PaymentsResponseData>>
FiservSync ==
    /\ rd.connector = "fiserv"
    /\ rd.flow = "PSync"
    /\ \E response \in FiservSyncResponse :
         Translate("FiservSync", [sync_responses |-> response],
                       (LET data == rd
                            sync_responses == response
                        IN IF sync_responses = <<>> THEN Err(ConnectorError("ResponseHandlingFailed", "None"))
                           ELSE LET gateway_resp == Head(sync_responses)
                                IN Ok([data EXCEPT
                                       !.status = FiservAttemptStatusFrom(gateway_resp.transaction_state),
                                       !.response = Ok(TransactionResponse(
                                                        ConnectorTransactionId(gateway_resp.transaction_id),
                                                        NoneRec, NoneRec, "None", gateway_resp.order_id))])))

\* TryFrom<RefundsResponseRouterData<Execute, RefundResponse>>
FiservRefund ==
    /\ rd.connector = "fiserv"
    /\ rd.flow = "Execute"
    /\ \E response \in FiservPaymentsResponse :
         Translate("FiservRefund", response,
             (LET data == rd
              IN Ok([data EXCEPT
                     !.response = Ok(RefundsResponseData(
                                      response.transaction_id,
                                      FiservRefundStatusFrom(response.transaction_state)))])))

\* TryFrom<RefundsResponseRouterData<RSync, FiservSyncResponse>>
FiservRefundSync ==
    /\ rd.connector = "fiserv"
    /\ rd.flow = "RSync"
    /\ \E response \in FiservSyncResponse :
         Translate("FiservRefundSync", [sync_responses |-> response],
                       (LET data == rd
                            sync_responses == response
                        IN IF sync_responses = <<>> THEN Err(ConnectorError("ResponseHandlingFailed", "None"))
                           ELSE LET gateway_resp == Head(sync_responses)
                                IN Ok([data EXCEPT
                                       !.response = Ok(RefundsResponseData(
                                                        gateway_resp.transaction_id,
                                                        FiservRefundStatusFrom(gateway_resp.transaction_state)))])))

\* TryFrom<ResponseRouterData<F, NexinetsPreAuthOrDebitResponse, T, PaymentsResponseData>>
NexinetsPreAuthOrDebit ==
    /\ rd.connector = "nexinets"
    /\ rd.flow = "Authorize"
    /\ \E response \in NexinetsPreAuthOrDebitResponse :
         Translate("NexinetsPreAuthOrDebit", response,
                       (LET data == rd
                        IN IF response.transactions = <<>>
                           THEN Err(ConnectorError("ResponseHandlingFailed", "None"))
                           ELSE IF response.transaction_type \notin {"Preauth", "Debit"}
                           THEN Err(ConnectorError("ResponseHandlingFailed", "None"))
                           ELSE
                             LET transaction == Head(response.transactions)
                                 connector_metadata ==
                                     NexinetsPaymentsMetadata(transaction.transaction_id,
                                                              response.order_id, response.transaction_type)
                                 redirection_data ==
                                     IF response.redirect_url = "None" THEN NoneRec
                                     ELSE RedirectFormFrom(response.redirect_url, "Get")
                                 resource_id ==
                                     IF response.transaction_type = "Preauth" THEN NoResponseId
                                     ELSE ConnectorTransactionId(transaction.transaction_id)
                                 mandate_reference ==
                                     IF response.payment_instrument_id = "None" THEN NoneRec
                                     ELSE MandateReference(response.payment_instrument_id)
                             IN Ok([data EXCEPT
                                    !.status = get_status(transaction.status, response.transaction_type),
                                    !.response = Ok(TransactionResponse(
                                                     resource_id, redirection_data, mandate_reference,
                                                     connector_metadata, response.order_id))])))

\* TryFrom<ResponseRouterData<F, NexinetsPaymentResponse, T, PaymentsResponseData>>
NexinetsPayment ==
    /\ rd.connector = "nexinets"
    /\ rd.flow \in {"PSync", "Capture", "Void"}
    /\ \E response \in NexinetsPaymentResponse :
         Translate("NexinetsPayment", response,
             (LET data == rd
              IN LET connector_metadata ==
                         NexinetsPaymentsMetadata(response.transaction_id, response.order_id,
                                                  response.transaction_type)
                     resource_id ==
                         IF response.transaction_type \in {"Debit", "Capture"}
                         THEN ConnectorTransactionId(response.transaction_id)
                         ELSE NoResponseId
                 IN Ok([data EXCEPT
                        !.status = get_status(response.status, response.transaction_type),
                        !.response = Ok(TransactionResponse(
                                         resource_id, NoneRec, NoneRec, connector_metadata,
                                         response.order_id))])))

\* TryFrom<RefundsResponseRouterData<Execute | RSync, NexinetsRefundResponse>>
NexinetsRefund ==
    /\ rd.connector = "nexinets"
    /\ rd.flow \in RefundFlows
    /\ \E response \in NexinetsRefundResponse :
         Translate("NexinetsRefund", response,
             (LET data == rd
              IN Ok([data EXCEPT
                     !.response = Ok(RefundsResponseData(
                                      response.transaction_id,
                                      NexinetsRefundStatusFrom(response.status)))])))

\* TryFrom<ResponseRouterData<F, NoonPaymentsResponse, T, PaymentsResponseData>>
NoonPaymentsTryFrom(data, response) ==
    LET order == response.order
        status == get_payment_status(order.status, data.status)
        redirection_data ==
            IF response.checkout_data = "None" THEN NoneRec
            ELSE [kind |-> "Form", endpoint |-> response.checkout_data,
                  method |-> "Post", form_fields |-> EmptyMap]
        mandate_reference ==
            IF response.subscription = "None" THEN NoneRec
            ELSE MandateReference(response.subscription)
    IN Ok([data EXCEPT
           !.status = status,
           !.response =
              IF order.error_message # "None"
              THEN Err([code |-> to_string(order.error_code),
                        message |-> order.error_message,
                        reason |-> order.error_message,
                        status_code |-> response.http_code,
                        attempt_status |-> status,
                        connector_transaction_id |-> to_string(order.id)])
              ELSE Ok(TransactionResponse(
                        ConnectorTransactionId(to_string(order.id)),
                        redirection_data, mandate_reference, "None",
                        IF order.reference # "None" THEN order.reference
                        ELSE to_string(order.id)))])

\* the payments translation of a response the connector returned to a call
NoonPayments ==
    /\ rd.connector = "noon"
    /\ rd.flow \in PaymentFlows
    /\ \E response \in NoonPaymentsResponse :
         Translate("NoonPayments", response, NoonPaymentsTryFrom(rd, response))

\* From<NoonWebhookObject> for NoonPaymentsResponse
NoonPaymentsResponseFrom(value) ==
    [order |-> [status |-> value.order_status, id |-> value.order_id,
                error_code |-> 0, error_message |-> "None",
                reference |-> "None"],
     checkout_data |-> "None",
     subscription |-> "None",
     http_code |-> 200]

\* the payments translation of the response made from a webhook body, which
\* is handled as the response of a payment sync
NoonWebhook ==
    /\ rd.connector = "noon"
    /\ rd.flow = "PSync"
    /\ \E value \in NoonWebhookObject :
         Translate("NoonWebhook", value,
                   NoonPaymentsTryFrom(rd, NoonPaymentsResponseFrom(value)))

\* TryFrom<RefundsResponseRouterData<Execute, RefundResponse>>
NoonRefund ==
    /\ rd.connector = "noon"
    /\ rd.flow = "Execute"
    /\ \E response \in NoonRefundResponse :
         Translate("NoonRefund", response,
             (LET data == rd
              IN LET refund_status == NoonRefundStatusFrom(response.status)
                 IN Ok([data EXCEPT
                        !.response =
                           IF is_refund_failure(refund_status)
                           THEN Err(NoonRefundErrorResponse(response, response.id))
                           ELSE Ok(RefundsResponseData(response.id, refund_status))])))

\* the refund sync translation taking the last matching transaction
NoonRefundSync_last_match ==
    /\ rd.connector = "noon"
    /\ rd.flow = "RSync"
    /\ \E response \in NoonRefundSyncResponse :
         Translate("NoonRefundSync", response,
             (LET data == rd
              IN LET found ==
                  (LET transactions == response.transactions
                       refund_id == data.request.refund_id
                   IN LET hits == {i \in 1..Len(transactions) :
                                      transactions[i].transaction_reference = refund_id}
                      IN IF hits = {} THEN 0 ELSE CHOOSE i \in hits : \A j \in hits : i >= j)
                 IN IF found = 0 THEN Err(ConnectorError("ResponseHandlingFailed", "None"))
                    ELSE LET noon_transaction == response.transactions[found]
                             refund_status == NoonRefundStatusFrom(noon_transaction.status)
                         IN Ok([data EXCEPT
                                !.response =
                                   IF is_refund_failure(refund_status)
                                   THEN Err(NoonRefundErrorResponse(response, noon_transaction.id))
                                   ELSE Ok(RefundsResponseData(noon_transaction.id,
                                                               refund_status))])))

\* TryFrom<RefundsResponseRouterData<RSync, RefundSyncResponse>>
NoonRefundSync ==
    /\ rd.connector = "noon"
    /\ rd.flow = "RSync"
    /\ \E response \in NoonRefundSyncResponse :
         Translate("NoonRefundSync", response,
             (LET data == rd
              IN LET found ==
                  (LET transactions == response.transactions
                       refund_id == data.request.refund_id
                   IN LET hits == {i \in 1..Len(transactions) :
                                      transactions[i].transaction_reference = refund_id}
                      IN IF hits = {} THEN 0 ELSE CHOOSE i \in hits : \A j \in hits : i <= j)
                 IN IF found = 0 THEN Err(ConnectorError("ResponseHandlingFailed", "None"))
                    ELSE LET noon_transaction == response.transactions[found]
                             refund_status == NoonRefundStatusFrom(noon_transaction.status)
                         IN Ok([data EXCEPT
                                !.response =
                                   IF is_refund_failure(refund_status)
                                   THEN Err(NoonRefundErrorResponse(response, noon_transaction.id))
                                   ELSE Ok(RefundsResponseData(noon_transaction.id,
                                                               refund_status))])))

\* TryFrom<ResponseRouterData<F, GlobalpayPaymentsResponse, T, PaymentsResponseData>>
GlobalpayPayments ==
    /\ rd.connector = "globalpay"
    /\ rd.flow \in PaymentFlows
    /\ \E response \in GlobalpayPaymentsResponse :
         Translate("GlobalpayPayments", response,
                       (LET data == rd
                        IN LET status == GlobalpayAttemptStatusFrom(response.status)
                               pm == response.payment_method
                               redirect_str ==
                                   IF pm.kind = "None" THEN "None"
                                   ELSE IF pm.redirect_url = "" THEN "None" ELSE pm.redirect_url
                               redirect_url ==
                                   IF redirect_str = "None" THEN Ok("None")
                                   ELSE IF redirect_str \in Urls THEN Ok(redirect_str)
                                   ELSE Err("ParseError")
                           IN IF ~redirect_url.ok
                              THEN Err(ConnectorError("FailedToObtainIntegrationUrl", "None"))
                              ELSE LET redirection_data ==
                                           IF redirect_url.val = "None" THEN NoneRec
                                           ELSE RedirectFormFrom(redirect_url.val, "Get")
                                   IN Ok([data EXCEPT
                                          !.status = status,
                                          !.response = get_payment_response(status, response,
                                                                            redirection_data)])))

\* TryFrom<RefundsResponseRouterData<Execute | RSync, GlobalpayPaymentsResponse>>
GlobalpayRefund ==
    /\ rd.connector = "globalpay"
    /\ rd.flow \in RefundFlows
    /\ \E response \in GlobalpayRefundResponse :
         Translate("GlobalpayRefund", response,
             (LET data == rd
              IN Ok([data EXCEPT
                     !.response = Ok(RefundsResponseData(
                                      response.id, GlobalpayRefundStatusFrom(response.status)))])))

Next ==
    \/ AciPayments
    \/ AciCapture
    \/ AciRefund
    \/ FiservPayments
    \/ FiservSync
    \/ FiservRefund
    \/ FiservRefundSync
    \/ NexinetsPreAuthOrDebit
    \/ NexinetsPayment
    \/ NexinetsRefund
    \/ NoonPayments
    \/ NoonWebhook
    \/ NoonRefund
    \/ NoonRefundSync
    \/ GlobalpayPayments
    \/ GlobalpayRefund

Spec == Init /\ [][Next]_vars

-----------------------------------------------------------------------------
(* Properties of the response translations.                                 *)

PaymentOps ==
    {"AciPayments", "AciCapture", "FiservPayments", "FiservSync",
     "NexinetsPreAuthOrDebit", "NexinetsPayment", "NoonPayments",
     "GlobalpayPayments"}

RefundOps ==
    {"AciRefund", "FiservRefund", "FiservRefundSync", "NexinetsRefund",
     "NoonRefund", "NoonRefundSync", "GlobalpayRefund"}

\* the last translation returned a RouterData
Translated(ops) == call.op \in ops /\ ret.ok

\* the response of the last translation carries a redirect descriptor
RedirectDescriptor ==
    CASE call.op = "AciPayments" -> call.response.redirect.kind # "None"
      [] call.op = "NexinetsPreAuthOrDebit" -> call.response.redirect_url # "None"
      [] call.op = "NoonPayments" -> call.response.checkout_data # "None"
      [] call.op = "GlobalpayPayments" ->
            /\ call.response.payment_method.kind # "None"
            /\ call.response.payment_method.redirect_url \notin {"None", ""}
      [] OTHER -> FALSE

\* C1: redirect priority. When the response of a payment translator (ACI,
\* Nexinets, Noon, Globalpay) carries a redirect descriptor, the resulting
\* attempt status is not Charged nor Voided, whatever status or result code
\* the response reports.
C1_RedirectPriority ==
    (Translated(PaymentOps) /\ RedirectDescriptor)
        => rd.status \notin {"Charged", "Voided"}

FailureStatuses == {"Failure", "AuthorizationFailed", "CaptureFailed", "VoidFailed"}

\* the status of the last payment translation was derived from the response
\* (Noon's Locked hands the previous status on)
StatusDerived ==
    ~(call.op = "NoonPayments" /\ call.response.order.status = "Locked")

\* C2: a failure status comes with an ErrorResponse. When a payment
\* translator derives a failure status from the response, or a refund
\* translator derives RefundStatus Failure, the RouterData's response is
\* Err(ErrorResponse) and never Ok(..).
C2_FailureIsErrorResponse ==
    /\ (Translated(PaymentOps) /\ StatusDerived /\ rd.status \in FailureStatuses)
          => ~rd.response.ok
    /\ Translated(RefundOps)
          => ~(rd.response.ok /\ rd.response.val.refund_status = "Failure")

\* the last translation is of a capture response that reports success
CaptureSucceeded ==
    /\ rd.flow = "Capture"
    /\ CASE call.op = "AciCapture" ->
              call.response.code \in
                  SUCCESSFUL_CODES \ (FAILURE_CODES \cup PENDING_CODES)
         [] call.op = "FiservPayments" ->
              call.response.transaction_state \in {"Captured", "Succeeded"}
         [] call.op = "NexinetsPayment" ->
              /\ call.response.transaction_type = "Capture"
              /\ call.response.status = "Success"
         [] call.op = "NoonPayments" -> call.response.order.status = "Captured"
         [] call.op = "GlobalpayPayments" -> call.response.status = "Captured"
         [] OTHER -> FALSE

\* C3: a successful capture ends in Charged. For every connector, the
\* translation of a capture response that reports success yields Charged.
C3_CaptureCharged ==
    (Translated(PaymentOps) /\ CaptureSucceeded) => rd.status = "Charged"

\* the last translation is of a cancel response that reports success and
\* carries no redirect
VoidSucceeded ==
    /\ rd.flow = "Void"
    /\ ~RedirectDescriptor
    /\ CASE call.op = "AciPayments" ->
              call.response.code \in
                  SUCCESSFUL_CODES \ (FAILURE_CODES \cup PENDING_CODES)
         [] call.op = "FiservPayments" -> call.response.transaction_state = "Voided"
         [] call.op = "NexinetsPayment" ->
              /\ call.response.transaction_type = "Cancel"
              /\ call.response.status = "Success"
         [] call.op = "NoonPayments" -> call.response.order.status = "Reversed"
         [] call.op = "GlobalpayPayments" -> call.response.status = "Reversed"
         [] OTHER -> FALSE

\* C4: a successful void ends in Voided. For every connector, the
\* translation of a cancel response that reports success and no redirect
\* yields Voided.
C4_VoidVoided ==
    (Translated(PaymentOps) /\ VoidSucceeded) => rd.status = "Voided"

TerminalStatuses ==
    {"Charged", "Failure", "AuthorizationFailed", "CaptureFailed", "Voided",
     "VoidFailed", "AuthenticationFailed"}

\* the refund status the last translation wrote, "None" when there is none
RefundStatusOf(data) ==
    IF data.flow \in RefundFlows /\ data.response.ok
    THEN data.response.val.refund_status ELSE "None"

\* C5: terminal states are absorbing. Once a translation has left the
\* attempt in a terminal status no later translation changes the status, and
\* a refund status Success or Failure is not set back to Pending.
C5_TerminalAbsorbing ==
    [][/\ (Translated(PaymentOps) /\ rd.status \in TerminalStatuses)
             => rd'.status = rd.status
       /\ (Translated(RefundOps) /\ RefundStatusOf(rd) \in {"Success", "Failure"})
             => RefundStatusOf(rd') # "Pending"]_vars

-----------------------------------------------------------------------------
(* The status mappers on their own: each action applies one mapper to a     *)
(* value of its raw vocabulary and of its contextual flags.                 *)

InitMap ==
    /\ rd = NewRouterData("aci", "Authorize",
                          [capture_method |-> "None", refund_id |-> "None"],
                          "Started")
    /\ call = NoCall
    /\ ret = Ok("none")

Map(op, connector, input, result) ==
    /\ call' = [op |-> op, connector |-> connector, response |-> input]
    /\ ret' = result
    /\ UNCHANGED rd

\* AciPaymentStatus::from_str(code)?, then map_aci_attempt_status
MapAciAttemptStatus ==
    \E code \in ResultCodes, auto_capture \in BOOLEAN :
       LET parsed == AciPaymentStatus_from_str(code)
       IN Map("MapAciAttemptStatus", "aci",
              [code |-> code, auto_capture |-> auto_capture],
              IF parsed.ok
              THEN Ok([class |-> parsed.val,
                       status |-> map_aci_attempt_status(parsed.val, auto_capture)])
              ELSE parsed)

\* AciRefundStatus::from_str(code)?, then RefundStatus::from
MapAciRefundStatus ==
    \E code \in ResultCodes :
       LET parsed == AciRefundStatus_from_str(code)
       IN Map("MapAciRefundStatus", "aci", [code |-> code],
              IF parsed.ok
              THEN Ok([class |-> parsed.val,
                       status |-> AciRefundStatusFrom(parsed.val)])
              ELSE parsed)

MapFiservAttemptStatus ==
    \E item \in FiservPaymentStatus :
       Map("MapFiservAttemptStatus", "fiserv", [status |-> item],
           Ok(FiservAttemptStatusFrom(item)))

MapFiservRefundStatus ==
    \E item \in FiservPaymentStatus :
       Map("MapFiservRefundStatus", "fiserv", [status |-> item],
           Ok(FiservRefundStatusFrom(item)))

MapNexinetsStatus ==
    \E status \in NexinetsPaymentStatus, method \in NexinetsTransactionType :
       Map("MapNexinetsStatus", "nexinets", [status |-> status, method |-> method],
           Ok(get_status(status, method)))

MapNexinetsRefundStatus ==
    \E item \in NexinetsRefundStatus :
       Map("MapNexinetsRefundStatus", "nexinets", [status |-> item],
           Ok(NexinetsRefundStatusFrom(item)))

MapNoonPaymentStatus ==
    \E item \in NoonPaymentStatus, current_status \in AttemptStatus :
       Map("MapNoonPaymentStatus", "noon",
           [status |-> item, current_status |-> current_status],
           Ok(get_payment_status(item, current_status)))

MapNoonRefundStatus ==
    \E item \in NoonRefundStatus :
       Map("MapNoonRefundStatus", "noon", [status |-> item],
           Ok(NoonRefundStatusFrom(item)))

MapGlobalpayAttemptStatus ==
    \E item \in GlobalpayPaymentStatus :
       Map("MapGlobalpayAttemptStatus", "globalpay", [status |-> item],
           Ok(GlobalpayAttemptStatusFrom(item)))

MapGlobalpayRefundStatus ==
    \E item \in GlobalpayPaymentStatus :
       Map("MapGlobalpayRefundStatus", "globalpay", [status |-> item],
           Ok(GlobalpayRefundStatusFrom(item)))

NextMap ==
    \/ MapAciAttemptStatus
    \/ MapAciRefundStatus
    \/ MapFiservAttemptStatus
    \/ MapFiservRefundStatus
    \/ MapNexinetsStatus
    \/ MapNexinetsRefundStatus
    \/ MapNoonPaymentStatus
    \/ MapNoonRefundStatus
    \/ MapGlobalpayAttemptStatus
    \/ MapGlobalpayRefundStatus

SpecMap == InitMap /\ [][NextMap]_vars

AttemptMappers ==
    {"MapFiservAttemptStatus", "MapNexinetsStatus", "MapNoonPaymentStatus",
     "MapGlobalpayAttemptStatus"}

RefundMappers ==
    {"MapFiservRefundStatus", "MapNexinetsRefundStatus", "MapNoonRefundStatus",
     "MapGlobalpayRefundStatus"}

AciClasses == {"Failed", "Pending", "Succeeded"}

\* the mappers over an enum vocabulary return a defined status
EnumMappersTotal ==
    /\ call.op \in AttemptMappers => (ret.ok /\ ret.val \in AttemptStatus)
    /\ call.op \in RefundMappers => (ret.ok /\ ret.val \in RefundStatus)

\* the ACI mapper returned a class and a defined status
AciClassified ==
    /\ ret.ok
    /\ ret.val.class \in AciClasses
    /\ call.op = "MapAciAttemptStatus" => ret.val.status \in AttemptStatus
    /\ call.op = "MapAciRefundStatus" => ret.val.status \in RefundStatus

AciMappers == {"MapAciAttemptStatus", "MapAciRefundStatus"}

\* C6 as stated: every mapper returns a defined status for every value of
\* its vocabulary and flags, and every ACI result code is classified into
\* one of Failed, Pending, Succeeded.
C6_MapperTotal ==
    /\ EnumMappersTotal
    /\ call.op \in AciMappers => AciClassified

\* C6 amended: the enum mappers return a defined status for every value of
\* their vocabulary and flags; an ACI result code on one of the three lists
\* is classified into exactly one class (the failure list first, then the
\* pending list, then the success list) and mapped to a defined status, and
\* a code on none of the lists yields Err(UnexpectedResponseError) and no
\* status.
C6_MapperTotalOnListedCodes ==
    /\ EnumMappersTotal
    /\ call.op \in AciMappers =>
         LET code == call.response.code
         IN IF code \in FAILURE_CODES \cup PENDING_CODES \cup SUCCESSFUL_CODES
            THEN /\ AciClassified
                 /\ ret.val.class = "Failed" <=> code \in FAILURE_CODES
                 /\ ret.val.class = "Pending" <=>
                        code \in PENDING_CODES \ FAILURE_CODES
                 /\ ret.val.class = "Succeeded" <=>
                        code \in SUCCESSFUL_CODES \ (FAILURE_CODES \cup PENDING_CODES)
            ELSE /\ ~ret.ok
                 /\ ret.val.kind = "UnexpectedResponseError"

\* an ACI result code on none of the lists has been mapped
C6_UnlistedCodeMapped ==
    /\ call.op = "MapAciAttemptStatus"
    /\ call.response.code \notin FAILURE_CODES \cup PENDING_CODES \cup SUCCESSFUL_CODES
    /\ ~ret.ok

-----------------------------------------------------------------------------
(* Request building: a RouterData carrying the connector's credentials, on  *)
(* which one auth resolution or one request builder is run.  call holds the  *)
(* operation and the request fields it read, ret what it returned.          *)

NoBuild == [op |-> "none", connector |-> "none", request |-> NoneRec]

\* PaymentsAuthorizeData with the fields of the RouterData the connector's
\* authorize builder reads; payment_method is the method of the payment
\* method data
PaymentsAuthorizeData(connector) ==
    CASE connector = "aci" ->
           [payment_method_data : PaymentMethodDatas,
            setup_mandate_details : BOOLEAN,
            mandate_id : MandateIdValues,
            billing_country : {"None", "DE"},
            billing_email : {"None", "a@example.com"},
            billing_phone : {"None", "+49#1512345678"},
            customer_id : {"None", "cust1"},
            billing_full_name : {"John Doe"},
            router_return_url : {"None", "https://merchant.example/return"},
            amount : {"10.00"}, currency : {"EUR"}]
      [] connector = "nexinets" ->
           {[payment_method_data |-> pmd,
             payment_method |->
                 (CASE pmd.kind \in
                           {"Card", "CardToken", "NetworkToken",
                            "CardDetailsForNetworkTransactionId", "MandatePayment"} -> "Card"
                    [] OTHER -> pmd.kind),
             setup_mandate_details |-> setup,
             mandate_id |-> mandate_id,
             off_session |-> off_session,
             router_return_url |-> return_url,
             amount |-> 1000, currency |-> "EUR"] :
               pmd \in PaymentMethodDatas, setup \in BOOLEAN,
               mandate_id \in MandateIdValues,
               off_session \in {"None", "true", "false"},
               return_url \in {"None", "https://merchant.example/return"}}
      [] connector = "noon" ->
           [payment_method_data : PaymentMethodDatas,
            mandate_id : MandateIdValues,
            order_category : {"None", "pay"},
            description :
                {NoneRec, Some(<<" ", "a", " ", " ", " ", "b", " ">>),
                 Some([i \in 1..MaxDescription |-> "x"])},
            router_return_url : {"None", "https://merchant.example/return"},
            capture_method : RequestCaptureMethods,
            mandate_amount : {"None", "50.00"},
            amount : {"10.00"}, currency : {"AED"}]
      [] connector = "globalpay" ->
           [payment_method_data : PaymentMethodDatas,
            connector_meta_data : {"None", "invalid", "valid"},
            setup_mandate_details : BOOLEAN,
            mandate_id : MandateIdValues,
            off_session : {"None", "true", "false"},
            billing_country : {"None", "DE"},
            capture_method : RequestCaptureMethods,
            router_return_url : {"https://merchant.example/return"},
            complete_authorize_url : {"https://merchant.example/complete"},
            amount : {"10.00"}, currency : {"EUR"}]

\* the state before a builder runs: a RouterData carrying one credential of
\* each shape the connectors accept or refuse
InitBuild ==
    /\ rd \in [connector : Connectors,
               connector_auth_type :
                   {a \in ConnectorAuthTypes :
                       /\ a.kind \in {"HeaderKey", "BodyKey", "SignatureKey", "NoKey"}
                       /\ a.api_key \in {<<>>, <<115>>}
                       /\ a.key1 \in {<<>>, <<109>>}},
               connector_request_reference_id : {"ref1"}]
    /\ call = NoBuild
    /\ ret = Ok(NoneRec)

\* a RouterData is built from by its connector's code
CanBuild(connector) == rd.connector = connector

\* the requests a builder may run on: any the first time, and the same
\* request again when the call is retried
Again(op, requests) ==
    IF call = NoBuild THEN requests
    ELSE IF call.op = op THEN {call.request} ELSE {}

\* one builder run on the RouterData
Build(op, connector, request, result) ==
    /\ call' = [op |-> op, connector |-> connector, request |-> request]
    /\ ret' = result
    /\ UNCHANGED rd

ResolveAciAuthType ==
    /\ CanBuild("aci")
    /\ \E auth_type \in Again("AciAuthType", ConnectorAuthTypes) :
        Build("AciAuthType", "aci", auth_type, AciAuthTypeTryFrom(auth_type))

ResolveFiservAuthType ==
    /\ CanBuild("fiserv")
    /\ \E auth_type \in Again("FiservAuthType", ConnectorAuthTypes) :
        Build("FiservAuthType", "fiserv", auth_type,
              FiservAuthTypeTryFrom(auth_type))

ResolveNexinetsAuthType ==
    /\ CanBuild("nexinets")
    /\ \E auth_type \in Again("NexinetsAuthType", ConnectorAuthTypes) :
        Build("NexinetsAuthType", "nexinets", auth_type,
              NexinetsAuthTypeTryFrom(auth_type))

ResolveNoonAuthType ==
    /\ CanBuild("noon")
    /\ \E auth_type \in Again("NoonAuthType", ConnectorAuthTypes) :
        Build("NoonAuthType", "noon", auth_type, NoonAuthTypeTryFrom(auth_type))

ResolveGlobalpayAuthType ==
    /\ CanBuild("globalpay")
    /\ \E auth_type \in Again("GlobalpayAuthType", ConnectorAuthTypes) :
        Build("GlobalpayAuthType", "globalpay", auth_type,
              GlobalpayAuthTypeTryFrom(auth_type))

\* TryFrom<&AciRouterData<&PaymentsAuthorizeRouterData>> for AciPaymentsRequest
\* and the builders of its arms: (item, &WalletData), (item, &BankRedirectData)
\* and (item, &PayLaterData) build Redirect, (item, &Card) builds Card,
\* (item, MandateIds) builds Mandate
AciPaymentsRequestTryFrom(data, request) ==
    LET pmd == request.payment_method_data
        txn_details == get_transaction_details(data.connector_auth_type, request)
        Request(payment_method, instruction, shopper_result_url) ==
            [txn_details |-> txn_details.val,
             payment_method |-> payment_method,
             instruction |-> instruction,
             shopper_result_url |-> shopper_result_url]
        Redirect(payment_method) ==
            IF ~txn_details.ok THEN txn_details
            ELSE IF ~payment_method.ok THEN payment_method
            ELSE Ok(Request(payment_method.val, NoneRec, request.router_return_url))
        Card ==
            IF ~txn_details.ok THEN txn_details
            ELSE Ok(Request([kind |-> "AciCard",
                             card_holder |-> request.billing_full_name],
                            get_instruction_details(request), "None"))
        Mandate ==
            IF ~txn_details.ok THEN txn_details
            ELSE Ok(Request([kind |-> "Mandate"], get_instruction_details(request),
                            request.router_return_url))
    IN CASE pmd.kind = "Card" -> Card
         [] pmd.kind = "Wallet" -> Redirect(AciWalletPaymentDetails(request))
         [] pmd.kind = "PayLater" -> Redirect(Ok([kind |-> "Klarna"]))
         [] pmd.kind = "BankRedirect" ->
              Redirect(AciBankRedirectPaymentDetails(data, request))
         [] pmd.kind = "MandatePayment" ->
              IF request.mandate_id.kind = "None"
              THEN MissingRequiredField("mandate_id")
              ELSE Mandate
         [] OTHER ->
              NotImplemented(get_unimplemented_payment_method_error_message("Aci"))

\* the builder run on an authorize request
BuildAciPaymentsRequest ==
    /\ CanBuild("aci")
    /\ \E request \in Again("AciPaymentsRequest", PaymentsAuthorizeData("aci")) :
        Build("AciPaymentsRequest", "aci", request,
              AciPaymentsRequestTryFrom(rd, request))

\* TryFrom<&PaymentsCancelRouterData> for AciCancelRequest
BuildAciCancelRequest ==
    /\ CanBuild("aci")
    /\ \E request \in Again("AciCancelRequest", {NoneRec}) :
       LET auth == AciAuthTypeTryFrom(rd.connector_auth_type)
       IN Build("AciCancelRequest", "aci", request,
                IF ~auth.ok THEN auth
                ELSE Ok([entity_id |-> auth.val.entity_id,
                         payment_type |-> "Reversal"]))

\* TryFrom<&AciRouterData<&PaymentsCaptureRouterData>> for AciCaptureRequest
BuildAciCaptureRequest ==
    /\ CanBuild("aci")
    /\ \E request \in Again("AciCaptureRequest", [amount : {"10.00"}, currency : {"EUR"}]) :
        LET auth == AciAuthTypeTryFrom(rd.connector_auth_type)
        IN Build("AciCaptureRequest", "aci", request,
                 IF ~auth.ok THEN auth
                 ELSE Ok([txn_details |->
                            [entity_id |-> auth.val.entity_id,
                             amount |-> request.amount,
                             currency |-> request.currency,
                             payment_type |-> "Capture"]]))

\* TryFrom<&AciRouterData<&RefundsRouterData<F>>> for AciRefundRequest
BuildAciRefundRequest ==
    /\ CanBuild("aci")
    /\ \E request \in Again("AciRefundRequest", [amount : {"5.00"}, currency : {"EUR"}]) :
        LET auth == AciAuthTypeTryFrom(rd.connector_auth_type)
        IN Build("AciRefundRequest", "aci", request,
                 IF ~auth.ok THEN auth
                 ELSE Ok([amount |-> request.amount,
                          currency |-> request.currency,
                          payment_type |-> "Refund",
                          entity_id |-> auth.val.entity_id]))

\* the Google Pay wallet token: a string that is the JSON of a
\* RawGooglePayToken or is not, whose signedKey and signedMessage strings
\* are in turn the JSON of a SignedKey and of a SignedMessage or are not
GooglePayTokens ==
    [json : {FALSE}, signature : {<<>>}, protocol_version : {<<>>},
     signatures : {<<>>},
     signed_key : {[json |-> FALSE, key_value |-> <<>>, key_expiration |-> <<>>]},
     signed_message :
         {[json |-> FALSE, encrypted_message |-> <<>>,
           ephemeral_public_key |-> <<>>, tag |-> <<>>]}]
    \cup
    [json : {TRUE}, signature : {<<"s">>}, protocol_version : {<<"v">>},
     signatures : {<< <<"i">> >>},
     signed_key :
         {[json |-> FALSE, key_value |-> <<>>, key_expiration |-> <<>>],
          [json |-> TRUE, key_value |-> <<"k">>, key_expiration |-> <<"1">>]},
     signed_message :
         {[json |-> FALSE, encrypted_message |-> <<>>,
           ephemeral_public_key |-> <<>>, tag |-> <<>>],
          [json |-> TRUE, encrypted_message |-> <<"m">>,
           ephemeral_public_key |-> <<"e">>, tag |-> <<"t">>]}]

\* parse_googlepay_token_safely
parse_googlepay_token_safely(token) ==
    LET default == [signature |-> <<>>, protocol_version |-> <<>>,
                    encrypted_message |-> <<>>, ephemeral_public_key |-> <<>>,
                    tag |-> <<>>, key_value |-> <<>>, key_expiration |-> <<>>,
                    signatures |-> <<>>]
        raw == [default EXCEPT !.signature = token.signature,
                               !.protocol_version = token.protocol_version,
                               !.signatures = token.signatures]
        keyed == IF token.signed_key.json
                 THEN [raw EXCEPT !.key_value = token.signed_key.key_value,
                                  !.key_expiration = token.signed_key.key_expiration]
                 ELSE raw
    IN IF ~token.json THEN default
       ELSE IF token.signed_message.json
       THEN [keyed EXCEPT !.encrypted_message = token.signed_message.encrypted_message,
                          !.ephemeral_public_key =
                              token.signed_message.ephemeral_public_key,
                          !.tag = token.signed_message.tag]
       ELSE keyed

\* TryFrom<&FiservRouterData<&PaymentsAuthorizeRouterData>> for FiservPaymentsRequest
BuildFiservPaymentsRequest ==
    /\ CanBuild("fiserv")
    /\ \E request \in
           Again("FiservPaymentsRequest",
                 {request \in
                      [payment_method_data : PaymentMethodDatas,
                       token : GooglePayTokens \cup {NoneRec},
                       capture_method : RequestCaptureMethods,
                       connector_meta_data : {"None", "invalid", "valid"},
                       amount : {1000}, currency : {"USD"}] :
                      (request.token # NoneRec)
                          <=> (request.payment_method_data.kind = "Wallet"
                               /\ request.payment_method_data.sub = "GooglePay")}) :
        Build("FiservPaymentsRequest", "fiserv", request,
                  (LET data == rd
                   IN LET auth == FiservAuthTypeTryFrom(data.connector_auth_type)
                          metadata == get_required(request.connector_meta_data, "connector_meta_data")
                          session == FiservSessionObjectParse(metadata.val)
                          source ==
                              (LET payment_method_data == request.payment_method_data
                               IN CASE payment_method_data.kind = "Card" -> Ok([kind |-> "PaymentCard"])
                                    [] payment_method_data.kind = "Wallet" ->
                                         IF payment_method_data.sub = "GooglePay"
                                         THEN LET parsed ==
                                                      parse_googlepay_token_safely(request.token)
                                              IN Ok([kind |-> "GooglePay",
                                                     data |-> parsed.encrypted_message,
                                                     signature |-> parsed.signature,
                                                     version |-> parsed.protocol_version,
                                                     intermediate_signing_key |->
                                                         [signed_key |->
                                                              [key_value |-> parsed.key_value,
                                                               key_expiration |->
                                                                   parsed.key_expiration],
                                                          signatures |-> parsed.signatures]])
                                         ELSE NotImplemented(
                                                get_unimplemented_payment_method_error_message("fiserv"))
                                    [] OTHER ->
                                         NotImplemented(get_unimplemented_payment_method_error_message("fiserv")))
                      IN IF ~auth.ok THEN auth
                         ELSE IF ~metadata.ok THEN metadata
                         ELSE IF ~session.ok THEN session
                         ELSE IF ~source.ok THEN source
                         ELSE Ok([amount |-> [total |-> request.amount,
                                              currency |-> request.currency],
                                  source |-> source.val,
                                  transaction_details |->
                                      [capture_flag |->
                                           request.capture_method
                                               \in {"Automatic", "SequentialAutomatic", "None"},
                                       reversal_reason_code |-> "None",
                                       merchant_transaction_id |->
                                           data.connector_request_reference_id],
                                  merchant_details |->
                                      [merchant_id |-> auth.val.merchant_account,
                                       terminal_id |-> session.val.terminal_id]])))

\* TryFrom<&PaymentsCancelRouterData> for FiservCancelRequest
BuildFiservCancelRequest ==
    /\ CanBuild("fiserv")
    /\ \E request \in
           Again("FiservCancelRequest", [connector_meta_data : {"None", "invalid", "valid"},
            cancellation_reason : {"None", "requested_by_customer"},
            connector_transaction_id : TxnIds]) :
        Build("FiservCancelRequest", "fiserv", request,
                  (LET data == rd
                   IN LET auth == FiservAuthTypeTryFrom(data.connector_auth_type)
                          metadata == get_required(request.connector_meta_data, "connector_meta_data")
                          session == FiservSessionObjectParse(metadata.val)
                      IN IF ~auth.ok THEN auth
                         ELSE IF ~metadata.ok THEN metadata
                         ELSE IF ~session.ok THEN session
                         ELSE IF request.cancellation_reason = "None"
                         THEN MissingRequiredField("cancellation_reason")
                         ELSE Ok([merchant_details |->
                                      [merchant_id |-> auth.val.merchant_account,
                                       terminal_id |-> session.val.terminal_id],
                                  reference_transaction_id |-> request.connector_transaction_id,
                                  transaction_details |->
                                      [capture_flag |-> "None",
                                       reversal_reason_code |-> request.cancellation_reason,
                                       merchant_transaction_id |->
                                           data.connector_request_reference_id]])))

BuildFiservCaptureRequest ==
    /\ CanBuild("fiserv")
    /\ \E request \in
           Again("FiservCaptureRequest", [connector_meta_data : {"None", "invalid", "valid"},
            connector_transaction_id : TxnIds,
            amount : {1000}, currency : {"USD"}]) :
        Build("FiservCaptureRequest", "fiserv", request,
              FiservCaptureOrRefundRequestTryFrom(rd, request, TRUE))

BuildFiservSyncRequest ==
    /\ CanBuild("fiserv")
    /\ \E request \in Again("FiservSyncRequest", [connector_transaction_id : {"None"} \cup TxnIds]) :
        Build("FiservSyncRequest", "fiserv", request,
              FiservSyncRequestTryFrom(rd, request.connector_transaction_id,
                                       "MissingConnectorTransactionID"))

BuildFiservRefundSyncRequest ==
    /\ CanBuild("fiserv")
    /\ \E request \in Again("FiservRefundSyncRequest", [connector_refund_id : {"None"} \cup ConnectorRefundIds]) :
        Build("FiservRefundSyncRequest", "fiserv", request,
              FiservSyncRequestTryFrom(rd, request.connector_refund_id,
                                       "RequestEncodingFailed"))

BuildFiservRefundRequest ==
    /\ CanBuild("fiserv")
    /\ \E request \in
           Again("FiservRefundRequest", [connector_meta_data : {"None", "invalid", "valid"},
            connector_transaction_id : TxnIds,
            amount : {1000}, currency : {"USD"}]) :
        Build("FiservRefundRequest", "fiserv", request,
              FiservCaptureOrRefundRequestTryFrom(rd, request, FALSE))

\* TryFrom<&PaymentsAuthorizeRouterData> for NexinetsPaymentsRequest
\* the Nexinets authorize builder leaving the order id out
NexinetsPaymentsRequestTryFrom_unreferenced(data, request) ==
    LET details == get_payment_details_and_product(request)
    IN IF ~details.ok THEN details
       ELSE Ok([initial_amount |-> request.amount,
                currency |-> request.currency,
                channel |-> "Ecom",
                product |-> details.val.product,
                payment |-> details.val.payment,
                nexinets_async |->
                    [success_url |-> request.router_return_url,
                     cancel_url |-> request.router_return_url,
                     failure_url |-> request.router_return_url],
                merchant_order_id |->
                    "None"])

NexinetsPaymentsRequestTryFrom(data, request) ==
    LET details == get_payment_details_and_product(request)
    IN IF ~details.ok THEN details
       ELSE Ok([initial_amount |-> request.amount,
                currency |-> request.currency,
                channel |-> "Ecom",
                product |-> details.val.product,
                payment |-> details.val.payment,
                nexinets_async |->
                    [success_url |-> request.router_return_url,
                     cancel_url |-> request.router_return_url,
                     failure_url |-> request.router_return_url],
                merchant_order_id |->
                    IF request.payment_method = "Card"
                    THEN data.connector_request_reference_id ELSE "None"])

\* the builder run on an authorize request
BuildNexinetsPaymentsRequest ==
    /\ CanBuild("nexinets")
    /\ \E request \in Again("NexinetsPaymentsRequest", PaymentsAuthorizeData("nexinets")) :
        Build("NexinetsPaymentsRequest", "nexinets", request,
              NexinetsPaymentsRequestTryFrom(rd, request))

\* TryFrom<&PaymentsCaptureRouterData> for NexinetsCaptureOrVoidRequest
BuildNexinetsCaptureRequest ==
    /\ CanBuild("nexinets")
    /\ \E request \in Again("NexinetsCaptureRequest", [amount_to_capture : {1000}, currency : {"EUR"}]) :
        Build("NexinetsCaptureRequest", "nexinets", request,
              Ok([initial_amount |-> request.amount_to_capture,
                  currency |-> request.currency]))

\* TryFrom<&PaymentsCancelRouterData> for NexinetsCaptureOrVoidRequest
BuildNexinetsCancelRequest ==
    /\ CanBuild("nexinets")
    /\ \E request \in Again("NexinetsCancelRequest", [amount : {NoneRec, Some(1000)}, currency : {"None", "EUR"}]) :
        Build("NexinetsCancelRequest", "nexinets", request,
              IF request.amount = NoneRec THEN MissingRequiredField("amount")
              ELSE IF request.currency = "None"
              THEN MissingRequiredField("currency")
              ELSE Ok([initial_amount |-> request.amount.val,
                       currency |-> request.currency]))

\* TryFrom<&RefundsRouterData<F>> for NexinetsRefundRequest
BuildNexinetsRefundRequest ==
    /\ CanBuild("nexinets")
    /\ \E request \in Again("NexinetsRefundRequest", [refund_amount : {500}, currency : {"EUR"}]) :
        Build("NexinetsRefundRequest", "nexinets", request,
              Ok([initial_amount |-> request.refund_amount,
                  currency |-> request.currency]))

\* TryFrom<&NoonRouterData<&PaymentsAuthorizeRouterData>> for NoonPaymentsRequest
NoonPaymentsRequestTryFrom(data, request) ==
    LET mandate_id == connector_mandate_id(request)
        payment_data ==
            IF mandate_id # "None"
            THEN Ok([kind |-> "Subscription", subscription_identifier |-> mandate_id])
            ELSE
                (LET pmd == request.payment_method_data
                     return_url == get_required(request.router_return_url, "router_return_url")
                 IN CASE pmd.kind = "Card" -> Ok([kind |-> "Card"])
                      [] pmd.kind = "Wallet" /\ pmd.sub = "GooglePay" -> Ok([kind |-> "GooglePay"])
                      [] pmd.kind = "Wallet" /\ pmd.sub = "ApplePay" -> Ok([kind |-> "ApplePay"])
                      [] pmd.kind = "Wallet" /\ pmd.sub = "PaypalRedirect" ->
                           IF ~return_url.ok THEN return_url
                           ELSE Ok([kind |-> "PayPal", return_url |-> return_url.val])
                      [] OTHER ->
                           NotImplemented(get_unimplemented_payment_method_error_message("Noon")))
        currency == IF mandate_id # "None" THEN "None" ELSE request.currency
        category == IF mandate_id # "None" THEN "None" ELSE request.order_category
        name == NoonOrderName(request.description.val)
        subscription ==
            IF request.mandate_amount = "None" THEN NoneRec
            ELSE [kind |-> "Some", subscription_type |-> "Unscheduled",
                  name |-> name, max_amount |-> request.mandate_amount]
        auto_capture == is_auto_capture(request)
    IN IF ~payment_data.ok THEN payment_data
       ELSE IF mandate_id = "None" /\ request.order_category = "None"
       THEN MissingRequiredField("order_category")
       ELSE IF request.description = NoneRec
       THEN MissingRequiredField("description")
       ELSE IF ~auto_capture.ok THEN auto_capture
       ELSE Ok([api_operation |-> "Initiate",
                order |-> [amount |-> request.amount,
                           currency |-> currency,
                           channel |-> "Web",
                           category |-> category,
                           reference |-> data.connector_request_reference_id,
                           name |-> name],
                configuration |->
                    [payment_action |->
                         IF auto_capture.val THEN "Sale" ELSE "Authorize",
                     return_url |-> request.router_return_url,
                     tokenize_c_c |->
                         IF subscription # NoneRec THEN "true" ELSE "None"],
                payment_data |-> payment_data.val,
                subscription |-> subscription])

\* the builder run on an authorize request
BuildNoonPaymentsRequest ==
    /\ CanBuild("noon")
    /\ \E request \in Again("NoonPaymentsRequest", PaymentsAuthorizeData("noon")) :
        Build("NoonPaymentsRequest", "noon", request,
              NoonPaymentsRequestTryFrom(rd, request))

\* TryFrom<&NoonRouterData<&PaymentsCaptureRouterData>> for NoonPaymentsActionRequest
BuildNoonCaptureRequest ==
    /\ CanBuild("noon")
    /\ \E request \in Again("NoonCaptureRequest", [connector_transaction_id : TxnIds,
                       amount : {"10.00"}, currency : {"AED"}]) :
        Build("NoonCaptureRequest", "noon", request,
              Ok([api_operation |-> "Capture",
                  order |-> [id |-> request.connector_transaction_id],
                  transaction |-> [amount |-> request.amount,
                                   currency |-> request.currency,
                                   transaction_reference |-> "None"]]))

\* TryFrom<&PaymentsCancelRouterData> for NoonPaymentsCancelRequest
BuildNoonCancelRequest ==
    /\ CanBuild("noon")
    /\ \E request \in Again("NoonCancelRequest", [connector_transaction_id : TxnIds]) :
        Build("NoonCancelRequest", "noon", request,
              Ok([api_operation |-> "Reverse",
                  order |-> [id |-> request.connector_transaction_id]]))

\* TryFrom<&MandateRevokeRouterData> for NoonRevokeMandateRequest
BuildNoonRevokeMandateRequest ==
    /\ CanBuild("noon")
    /\ \E request \in Again("NoonRevokeMandateRequest", [connector_mandate_id : {"None"} \cup MandateIds]) :
        Build("NoonRevokeMandateRequest", "noon", request,
              IF request.connector_mandate_id = "None"
              THEN MissingRequiredField("connector_mandate_id")
              ELSE Ok([api_operation |-> "CancelSubscription",
                       subscription |->
                           [identifier |-> request.connector_mandate_id]]))

\* TryFrom<&NoonRouterData<&RefundsRouterData<F>>> for NoonPaymentsActionRequest
BuildNoonRefundRequest ==
    /\ CanBuild("noon")
    /\ \E request \in Again("NoonRefundRequest", [connector_transaction_id : TxnIds, refund_id : {"rf1"},
                       amount : {"10.00"}, currency : {"AED"}]) :
        Build("NoonRefundRequest", "noon", request,
              Ok([api_operation |-> "Refund",
                  order |-> [id |-> request.connector_transaction_id],
                  transaction |-> [amount |-> request.amount,
                                   currency |-> request.currency,
                                   transaction_reference |-> request.refund_id]]))

\* TryFrom<&GlobalPayRouterData<&PaymentsAuthorizeRouterData>>
\* for GlobalpayPaymentsRequest
GlobalpayPaymentsRequestTryFrom(data, request) ==
    LET metadata == to_connector_meta_from_secret(request.connector_meta_data)
        mandate == get_mandate_details(request)
        payment_method_data ==
            get_payment_method_data(request, mandate.brand_reference)
        country == get_required(request.billing_country, "billing.address.country")
    IN IF ~metadata.ok THEN metadata
       ELSE IF ~payment_method_data.ok THEN payment_method_data
       ELSE IF ~country.ok THEN country
       ELSE Ok([account_name |-> metadata.val.account_name,
                amount |-> request.amount,
                currency |-> request.currency,
                reference |-> data.connector_request_reference_id,
                country |-> country.val,
                capture_mode |-> CaptureModeFrom(request.capture_method),
                payment_method_data |-> payment_method_data.val,
                return_url |-> get_return_url(request),
                initiator |-> mandate.initiator,
                stored_credential |-> mandate.stored_credential])

\* the builder run on an authorize request
BuildGlobalpayPaymentsRequest ==
    /\ CanBuild("globalpay")
    /\ \E request \in Again("GlobalpayPaymentsRequest", PaymentsAuthorizeData("globalpay")) :
        Build("GlobalpayPaymentsRequest", "globalpay", request,
              GlobalpayPaymentsRequestTryFrom(rd, request))

\* TryFrom<&GlobalPayRouterData<&PaymentsCaptureRouterData>>
\* for GlobalpayCaptureRequest
BuildGlobalpayCaptureRequest ==
    /\ CanBuild("globalpay")
    /\ \E request \in
           Again("GlobalpayCaptureRequest", [multiple_capture_data :
                {NoneRec}
                \cup [kind : {"Some"}, capture_sequence : {1, 2},
                      capture_reference : {"cap1"}],
            amount : {"10.00"}]) :
        LET mcd == request.multiple_capture_data
        IN Build("GlobalpayCaptureRequest", "globalpay", request,
                 Ok([amount |-> request.amount,
                     capture_sequence |->
                         IF mcd = NoneRec THEN "None"
                         ELSE IF mcd.capture_sequence = 1 THEN "First"
                         ELSE "Subsequent",
                     reference |-> IF mcd = NoneRec THEN "None"
                                   ELSE mcd.capture_reference]))

\* TryFrom<&GlobalPayRouterData<&PaymentsCancelRouterData>>
\* for GlobalpayCancelRequest
BuildGlobalpayCancelRequest ==
    /\ CanBuild("globalpay")
    /\ \E request \in Again("GlobalpayCancelRequest", [amount : {"10.00"}]) :
        Build("GlobalpayCancelRequest", "globalpay", request,
              Ok([amount |-> request.amount]))

\* TryFrom<&GlobalPayRouterData<&RefundsRouterData<F>>> for GlobalpayRefundRequest
BuildGlobalpayRefundRequest ==
    /\ CanBuild("globalpay")
    /\ \E request \in Again("GlobalpayRefundRequest", [amount : {"5.00"}]) :
        Build("GlobalpayRefundRequest", "globalpay", request,
              Ok([amount |-> request.amount]))

\* the nonce is the text of the current time, drawn here from two instants
BuildGlobalpayRefreshTokenRequest ==
    /\ CanBuild("globalpay")
    /\ \E request \in Again("GlobalpayRefreshTokenRequest", {NoneRec}),
          nonce \in {<<110>>, <<111>>} :
        Build("GlobalpayRefreshTokenRequest", "globalpay", request,
                  (LET data == rd
                   IN LET globalpay_auth == GlobalpayAuthTypeTryFrom(data.connector_auth_type)
                      IN IF ~globalpay_auth.ok THEN FailedToObtainAuthType
                         ELSE Ok([app_id |-> globalpay_auth.val.app_id,
                                  nonce |-> nonce,
                                  secret |-> [sha512_hex_of |-> nonce \o globalpay_auth.val.key],
                                  grant_type |-> "client_credentials"])))

\* AmountConvertor::convert of StringMinorUnitForConnector,
\* StringMajorUnitForConnector and FloatMajorUnitForConnector: the minor-unit
\* amount as decimal digits, as the major-unit decimal with the currency's
\* number of places, and as the major-unit number
AmountConvertor_convert(view, amount, currency) ==
    LET exponent == CASE currency = "JPY" -> 0 [] currency = "KWD" -> 3 [] OTHER -> 2
        scale == 10 ^ exponent
        RECURSIVE Digits(_)
        Digits(n) ==
            LET digit == <<"0", "1", "2", "3", "4", "5", "6", "7", "8", "9">>[(n % 10) + 1]
            IN IF n < 10 THEN <<digit>> ELSE Digits(n \div 10) \o <<digit>>
        fraction == Digits(amount % scale)
        Padded == [i \in 1..exponent |->
                      IF i <= exponent - Len(fraction) THEN "0"
                      ELSE fraction[i - (exponent - Len(fraction))]]
    IN CASE view = "StringMinorUnit" -> Digits(amount)
         [] view = "StringMajorUnit" ->
              IF exponent = 0 THEN Digits(amount)
              ELSE Digits(amount \div scale) \o <<".">> \o Padded
         [] view = "FloatMajorUnit" ->
              [units |-> amount \div scale, fraction |-> amount % scale,
               places |-> exponent]

\* AmountConvertor::convert_back: the digits parsed, the major-unit value
\* multiplied by the currency's scale
AmountConvertor_convert_back(view, amount, currency) ==
    LET exponent == CASE currency = "JPY" -> 0 [] currency = "KWD" -> 3 [] OTHER -> 2
        scale == 10 ^ exponent
        Value(c) == CHOOSE d \in 0..9 :
                        <<"0", "1", "2", "3", "4", "5", "6", "7", "8", "9">>[d + 1] = c
        RECURSIVE Parse(_)
        Parse(digits) ==
            IF digits = <<>> THEN 0
            ELSE 10 * Parse(SubSeq(digits, 1, Len(digits) - 1))
                     + Value(digits[Len(digits)])
        point == IF \E i \in 1..Len(amount) : amount[i] = "."
                 THEN CHOOSE i \in 1..Len(amount) : amount[i] = "."
                 ELSE Len(amount) + 1
        whole == SubSeq(amount, 1, point - 1)
        places == SubSeq(amount, point + 1, Len(amount))
    IN CASE view = "StringMinorUnit" -> Parse(amount)
         [] view = "StringMajorUnit" ->
              Parse(whole) * scale
                  + Parse(places) * (10 ^ (exponent - Len(places)))
         [] view = "FloatMajorUnit" ->
              amount.units * scale + amount.fraction * (10 ^ (exponent - amount.places))

\* the amount of a request converted to the connector's view before the
\* builder is given it, and converted back
ConvertAmount ==
    /\ \E request \in
           Again("AmountConvertor",
                 [view : {"StringMinorUnit", "StringMajorUnit", "FloatMajorUnit"},
                  minor_amount : 0..MaxAmount,
                  currency : {"USD", "JPY", "KWD"}]) :
        Build("AmountConvertor", rd.connector, request,
              LET amount == AmountConvertor_convert(request.view, request.minor_amount,
                                                    request.currency)
              IN Ok([amount |-> amount,
                     minor_amount |->
                         AmountConvertor_convert_back(request.view, amount,
                                                      request.currency)]))

NextBuild ==
    \/ ResolveAciAuthType
    \/ ResolveFiservAuthType
    \/ ResolveNexinetsAuthType
    \/ ResolveNoonAuthType
    \/ ResolveGlobalpayAuthType
    \/ BuildAciPaymentsRequest
    \/ BuildAciCancelRequest
    \/ BuildAciCaptureRequest
    \/ BuildAciRefundRequest
    \/ BuildFiservPaymentsRequest
    \/ BuildFiservCancelRequest
    \/ BuildFiservCaptureRequest
    \/ BuildFiservSyncRequest
    \/ BuildFiservRefundSyncRequest
    \/ BuildFiservRefundRequest
    \/ BuildNexinetsPaymentsRequest
    \/ BuildNexinetsCaptureRequest
    \/ BuildNexinetsCancelRequest
    \/ BuildNexinetsRefundRequest
    \/ BuildNoonPaymentsRequest
    \/ BuildNoonCaptureRequest
    \/ BuildNoonCancelRequest
    \/ BuildNoonRevokeMandateRequest
    \/ BuildNoonRefundRequest
    \/ BuildGlobalpayPaymentsRequest
    \/ BuildGlobalpayCaptureRequest
    \/ BuildGlobalpayCancelRequest
    \/ BuildGlobalpayRefundRequest
    \/ BuildGlobalpayRefreshTokenRequest
    \/ ConvertAmount

SpecBuild == InitBuild /\ [][NextBuild]_vars

-----------------------------------------------------------------------------
(* Properties of auth resolution and request building.                      *)

AuthorizeBuilders ==
    {"AciPaymentsRequest", "FiservPaymentsRequest", "NexinetsPaymentsRequest",
     "NoonPaymentsRequest", "GlobalpayPaymentsRequest"}

AuthResolvers ==
    {"AciAuthType", "FiservAuthType", "NexinetsAuthType", "NoonAuthType",
     "GlobalpayAuthType"}

\* the credential shape a connector's auth resolver accepts
AcceptedShape(connector) ==
    IF connector \in {"aci", "nexinets", "globalpay"} THEN "BodyKey"
    ELSE "SignatureKey"

\* the payment-method variants and sub-variants a connector has an arm for
HasArm(connector, pmd) ==
    CASE connector = "aci" ->
           \/ pmd.kind \in {"Card", "PayLater", "MandatePayment"}
           \/ pmd.kind = "Wallet" /\ pmd.sub \in {"MbWayRedirect", "AliPayRedirect"}
           \/ pmd.kind = "BankRedirect"
              /\ pmd.sub \in {"Eps", "Eft", "Giropay", "Ideal", "Sofort",
                              "Przelewy24", "Interac", "Trustly"}
      [] connector = "fiserv" ->
           \/ pmd.kind = "Card"
           \/ pmd.kind = "Wallet" /\ pmd.sub = "GooglePay"
      [] connector = "nexinets" ->
           \/ pmd.kind = "Card"
           \/ pmd.kind = "Wallet" /\ pmd.sub \in {"PaypalRedirect", "ApplePay"}
           \/ pmd.kind = "BankRedirect"
              /\ pmd.sub \in {"Eps", "Giropay", "Ideal", "Sofort"}
      [] connector = "noon" ->
           \/ pmd.kind = "Card"
           \/ pmd.kind = "Wallet"
              /\ pmd.sub \in {"GooglePay", "ApplePay", "PaypalRedirect"}
      [] connector = "globalpay" ->
           \/ pmd.kind = "Card"
           \/ pmd.kind = "Wallet" /\ pmd.sub \in {"PaypalRedirect", "GooglePay"}
           \/ pmd.kind = "BankRedirect"
              /\ pmd.sub \in {"Eps", "Giropay", "Ideal", "Sofort"}

IsNotImplemented(result) == ~result.ok /\ result.val.kind = "NotImplemented"

StepErrors ==
    {"FailedToObtainAuthType", "MissingRequiredField", "InvalidConnectorConfig",
     "NoConnectorMetaData", "FlowNotSupported", "CaptureMethodNotSupported"}

\* the builder got as far as its payment-method match (Nexinets starts with
\* it, ACI selects the variant before anything else and the sub-variant
\* after auth, Fiserv and Globalpay read credentials or metadata first, Noon
\* skips it when the request carries a connector mandate id)
ReachesMatch ==
    LET request == call.request
        accepted == rd.connector_auth_type.kind = AcceptedShape(call.connector)
    IN CASE call.op = "AciPaymentsRequest" ->
              request.payment_method_data.kind \notin {"Wallet", "BankRedirect"}
              \/ accepted
         [] call.op = "FiservPaymentsRequest" ->
              accepted /\ request.connector_meta_data = "valid"
         [] call.op = "NexinetsPaymentsRequest" -> TRUE
         [] call.op = "NoonPaymentsRequest" ->
              connector_mandate_id(request) = "None"
         [] call.op = "GlobalpayPaymentsRequest" ->
              request.connector_meta_data = "valid"

Base64Index(c) == CHOOSE i \in 0..63 : Base64Alphabet[i + 1] = c

\* the bytes a padded base64 text stands for
RECURSIVE Base64Decode(_)
Base64Decode(chars) ==
    IF chars = <<>> THEN <<>>
    ELSE LET a == Base64Index(chars[1])
             b == Base64Index(chars[2])
             c == Base64Index(chars[3])
             d == Base64Index(chars[4])
         IN IF chars[3] = "=" THEN <<a * 4 + b \div 16>>
            ELSE IF chars[4] = "="
            THEN <<a * 4 + b \div 16, (b % 16) * 16 + c \div 4>>
            ELSE <<a * 4 + b \div 16, (b % 16) * 16 + c \div 4, (c % 4) * 64 + d>>
                 \o Base64Decode(SubSeq(chars, 5, Len(chars)))

\* C8: auth resolution succeeds exactly for the one credential shape of the
\* connector (BodyKey for ACI, Nexinets and Globalpay, SignatureKey for
\* Fiserv and Noon), returns Err(FailedToObtainAuthType) for every other
\* shape, and on success the auth struct holds the secrets unchanged; the
\* Nexinets header is "Basic " followed by the base64 text of key1:api_key.
C8_AuthResolution ==
    call.op \in AuthResolvers =>
        LET auth_type == call.request
            accepted == auth_type.kind = AcceptedShape(call.connector)
        IN /\ ret.ok <=> accepted
           /\ ~accepted => ret = FailedToObtainAuthType
           /\ accepted =>
                CASE call.op = "AciAuthType" ->
                       /\ ret.val.api_key = auth_type.api_key
                       /\ ret.val.entity_id = auth_type.key1
                  [] call.op = "FiservAuthType" ->
                       /\ ret.val.api_key = auth_type.api_key
                       /\ ret.val.merchant_account = auth_type.key1
                       /\ ret.val.api_secret = auth_type.api_secret
                  [] call.op = "NexinetsAuthType" ->
                       LET header == ret.val.api_key
                           prefix == <<"B", "a", "s", "i", "c", " ">>
                       IN /\ SubSeq(header, 1, Len(prefix)) = prefix
                          /\ Base64Decode(
                                 SubSeq(header, Len(prefix) + 1, Len(header)))
                             = auth_type.key1 \o <<58>> \o auth_type.api_key
                  [] call.op = "NoonAuthType" ->
                       /\ ret.val.api_key = auth_type.api_key
                       /\ ret.val.application_identifier = auth_type.api_secret
                       /\ ret.val.business_identifier = auth_type.key1
                  [] call.op = "GlobalpayAuthType" ->
                       /\ ret.val.app_id = auth_type.key1
                       /\ ret.val.key = auth_type.api_key

\* Nexinets resolved a BodyKey whose secrets are both two bytes long
C8_NexinetsHeaderBuilt ==
    /\ call.op = "NexinetsAuthType"
    /\ ret.ok
    /\ Len(call.request.key1) = 2
    /\ Len(call.request.api_key) = 2

\* a builder ran on a RouterData whose credentials are not of the shape the
\* connector accepts
WrongShape ==
    /\ call.op \notin AuthResolvers \cup {"none"}
    /\ rd.connector_auth_type.kind # AcceptedShape(call.connector)

AuthFirstBuilders ==
    {"AciCancelRequest", "AciCaptureRequest", "AciRefundRequest",
     "FiservPaymentsRequest", "FiservCancelRequest", "FiservCaptureRequest",
     "FiservSyncRequest", "FiservRefundSyncRequest", "FiservRefundRequest",
     "GlobalpayRefreshTokenRequest"}

\* the ACI authorize builder has selected a payment-method arm that builds
MandateArmTaken ==
    \/ call.request.payment_method_data.kind
           \in {"Card", "Wallet", "PayLater", "BankRedirect"}
    \/ /\ call.request.payment_method_data.kind = "MandatePayment"
       /\ call.request.mandate_id # NoneRec

C10_InstructionModes ==
    (call.op = "AciPaymentsRequest" /\ ret.ok) =>
        ret.val.instruction =
            IF call.request.setup_mandate_details
            THEN [kind |-> "Some", mode |-> "Initial",
                  transaction_type |-> "Unscheduled",
                  source |-> "CardholderInitiatedTransaction",
                  create_registration |-> "true"]
            ELSE IF call.request.mandate_id # NoneRec
            THEN [kind |-> "Some", mode |-> "Repeated",
                  transaction_type |-> "Unscheduled",
                  source |-> "MerchantInitiatedTransaction",
                  create_registration |-> "None"]
            ELSE NoneRec

-----------------------------------------------------------------------------
(* Properties of the capture mode and of the status tables.                 *)

AutomaticCaptureMethods == {"Automatic", "SequentialAutomatic", "None"}
ManualCaptureMethods == {"Manual", "ManualMultiple"}

\* C11: the auto-capture flag of every connector is automatic exactly when
\* the requested capture method is Automatic, SequentialAutomatic or absent,
\* and manual exactly when it is Manual or ManualMultiple: ACI's auto_capture
\* (seen in the status of a succeeded payment without redirect: Charged when
\* automatic, Authorized when manual), Fiserv's capture_flag, Noon's
\* payment_action and Globalpay's capture_mode.
C11_CaptureModeDerivation ==
    /\ (/\ call.op = "AciPayments" /\ ret.ok
        /\ call.response.redirect = NoneRec
        /\ call.response.code = "000.000.000") =>
           /\ rd.status = "Charged"
                <=> rd.request.capture_method \in AutomaticCaptureMethods
           /\ rd.status = "Authorized"
                <=> rd.request.capture_method \in ManualCaptureMethods
    /\ (/\ call.op = "FiservPaymentsRequest" /\ ret.ok
        /\ call.request.capture_method \in CaptureMethod \cup {"None"}) =>
           (ret.val.transaction_details.capture_flag
                <=> call.request.capture_method \in AutomaticCaptureMethods)
    /\ (/\ call.op = "NoonPaymentsRequest" /\ ret.ok
        /\ call.request.capture_method \in CaptureMethod \cup {"None"}) =>
           /\ ret.val.configuration.payment_action = "Sale"
                <=> call.request.capture_method \in AutomaticCaptureMethods
           /\ ret.val.configuration.payment_action = "Authorize"
                <=> call.request.capture_method \in ManualCaptureMethods
    /\ (/\ call.op = "GlobalpayPaymentsRequest" /\ ret.ok
        /\ call.request.capture_method \in CaptureMethod \cup {"None"}) =>
           /\ ret.val.capture_mode = "Auto"
                <=> call.request.capture_method \in AutomaticCaptureMethods
           /\ ret.val.capture_mode \in {"Later", "Multiple"}
                <=> call.request.capture_method \in ManualCaptureMethods

\* the table of the Nexinets statuses, one row per status with the columns
\* Preauth, Debit, Capture, Cancel
NexinetsStatusTable(status, type) ==
    LET row ==
          CASE status = "Success" ->
                 <<"Authorized", "Charged", "Charged", "Voided">>
            [] status \in {"Declined", "Failure", "Expired", "Aborted"} ->
                 <<"AuthorizationFailed", "CaptureFailed", "CaptureFailed",
                   "VoidFailed">>
            [] status = "Ok" -> <<"Authorized", "Pending", "Pending", "Pending">>
            [] status = "Pending" -> [i \in 1..4 |-> "AuthenticationPending"]
            [] status = "InProgress" -> [i \in 1..4 |-> "Pending"]
        column == CASE type = "Preauth" -> 1 [] type = "Debit" -> 2
                    [] type = "Capture" -> 3 [] type = "Cancel" -> 4
    IN row[column]

\* C12: get_status(status, type) equals the table for all 8 x 4 inputs, on
\* its own and in both Nexinets payment translators; an authorize response
\* of type Debit whose first transaction is Success and that has no
\* redirect_url yields status Charged, resource_id the id of that
\* transaction and redirection_data None.
C12_NexinetsStatusTable ==
    /\ call.op = "MapNexinetsStatus" =>
           ret = Ok(NexinetsStatusTable(call.response.status, call.response.method))
    /\ (call.op = "NexinetsPayment" /\ ret.ok) =>
           rd.status = NexinetsStatusTable(call.response.status,
                                           call.response.transaction_type)
    /\ (call.op = "NexinetsPreAuthOrDebit" /\ ret.ok) =>
           rd.status = NexinetsStatusTable(Head(call.response.transactions).status,
                                           call.response.transaction_type)
    /\ (/\ call.op = "NexinetsPreAuthOrDebit"
        /\ call.response.transaction_type = "Debit"
        /\ call.response.transactions # <<>>
        /\ call.response.redirect_url = "None") =>
           (Head(call.response.transactions).status = "Success" =>
               /\ ret.ok
               /\ rd.status = "Charged"
               /\ rd.response.ok
               /\ rd.response.val.resource_id =
                      ConnectorTransactionId(
                          Head(call.response.transactions).transaction_id)
               /\ rd.response.val.redirection_data = NoneRec)

\* a Debit authorize response with a Success first transaction and no
\* redirect_url was translated
C12_DebitSuccessNoRedirect ==
    /\ call.op = "NexinetsPreAuthOrDebit"
    /\ call.response.transaction_type = "Debit"
    /\ call.response.transactions # <<>>
    /\ Head(call.response.transactions).status = "Success"
    /\ call.response.redirect_url = "None"
    /\ rd.status = "Charged"

\* C13: a Noon payments translation of an order whose status is Locked
\* leaves the attempt status as it was before the translation, whatever it
\* was; for every other order status the resulting status is the same for
\* every previous status.
C13_LockedPreservesStatus ==
    [][(call'.op = "NoonPayments" /\ ret.ok) =>
           LET item == call'.response.order.status
           IN /\ ret'.ok
              /\ item = "Locked" => rd'.status = rd.status
              /\ item # "Locked" =>
                     \A previous \in AttemptStatus :
                         get_payment_status(item, previous) = rd'.status]_vars

\* a Locked order was translated on an attempt that was Voided before
C13_LockedOnVoided ==
    /\ call.op = "NoonPayments"
    /\ call.response.order.status = "Locked"
    /\ rd.status = "Voided"

ResponseHandlingFailed == Err(ConnectorError("ResponseHandlingFailed", "None"))

\* the transactions of a Noon refund sync response that carry the refund id
\* of the request
NoonMatches(response, refund_id) ==
    {i \in 1..Len(response.transactions) :
        response.transactions[i].transaction_reference = refund_id}

\* C14: a response whose list lacks the required entry fails with
\* ResponseHandlingFailed and returns no RouterData: a Fiserv payment sync or
\* refund sync with an empty sync_responses list, a Nexinets pre-auth/debit
\* response with an empty transactions list, a Noon refund sync without a
\* transaction whose transaction_reference is the refund id of the request;
\* when there is such a transaction Noon succeeds and reports the first one
\* in list order.
C14_MissingEntryFails ==
    /\ (/\ call.op \in {"FiservSync", "FiservRefundSync"}
        /\ call.response.sync_responses = <<>>) => ret = ResponseHandlingFailed
    /\ (/\ call.op = "NexinetsPreAuthOrDebit"
        /\ call.response.transactions = <<>>) => ret = ResponseHandlingFailed
    /\ call.op = "NoonRefundSync" =>
         LET matches == NoonMatches(call.response, rd.request.refund_id)
         IN /\ matches = {} => ret = ResponseHandlingFailed
            /\ matches # {} =>
                 \E i \in matches :
                    /\ \A j \in 1..(i - 1) : j \notin matches
                    /\ ret.ok
                    /\ LET first == call.response.transactions[i]
                       IN IF rd.response.ok
                          THEN /\ rd.response.val.connector_refund_id = first.id
                               /\ first.status # "Failed"
                          ELSE /\ rd.response.val.connector_transaction_id = first.id
                               /\ first.status = "Failed"

\* a Noon refund sync found no transaction for the refund id among
\* transactions that carry other references
C14_NoMatchingTransaction ==
    /\ call.op = "NoonRefundSync"
    /\ Len(call.response.transactions) = MaxRefundTransactions
    /\ \A i \in 1..Len(call.response.transactions) :
          call.response.transactions[i].transaction_reference
              \notin {"None", rd.request.refund_id}
    /\ ret = ResponseHandlingFailed

-----------------------------------------------------------------------------
(* Properties of the redirect form and of the fields carried over.          *)

\* the redirect form a payment translation put into its response
BuiltRedirectForm ==
    IF ret.ok /\ rd.response.ok /\ rd.response.val.kind = "TransactionResponse"
    THEN rd.response.val.redirection_data
    ELSE NoneRec

\* C15: the method of the redirect form. An explicit method of the redirect
\* descriptor is used; without one the form uses Post when the descriptor
\* enumerates form parameters (ACI) and Get when it is a bare URL (Nexinets
\* redirect_url, Globalpay apm.redirect_url, Noon checkout_data.post_url).
C15_RedirectMethodRule ==
    (call.op \in PaymentOps /\ RedirectDescriptor /\ BuiltRedirectForm # NoneRec) =>
        BuiltRedirectForm.method =
            CASE call.op = "AciPayments" ->
                   (IF call.response.redirect.method # "None"
                    THEN call.response.redirect.method ELSE "Post")
              [] OTHER -> "Get"

\* C16: the form_fields of the redirect form ACI builds have as keys exactly
\* the names of the descriptor's parameter list and map each name to the
\* value of the last parameter of that name; the parameters
\* [{name: PaReq, value: xyz}] without a method give
\* Form{endpoint: url, method: Post, form_fields: {PaReq: xyz}}.
C16_FieldFlattening ==
    (call.op = "AciPayments" /\ ret.ok /\ call.response.redirect # NoneRec) =>
        LET parameters == call.response.redirect.parameters
            form == rd.response.val.redirection_data
        IN /\ rd.response.ok
           /\ form.kind = "Form"
           /\ DOMAIN form.form_fields =
                  {parameters[i].name : i \in 1..Len(parameters)}
           /\ \A i \in 1..Len(parameters) :
                  (\A j \in (i + 1)..Len(parameters) :
                       parameters[j].name # parameters[i].name)
                  => form.form_fields[parameters[i].name] = parameters[i].value
           /\ (/\ parameters = <<[name |-> "PaReq", value |-> "xyz"]>>
               /\ call.response.redirect.method = "None") =>
                  form = [kind |-> "Form",
                          endpoint |-> call.response.redirect.url,
                          method |-> "Post",
                          form_fields |-> [k \in {"PaReq"} |-> "xyz"]]

\* ACI built a form from two parameters of the same name with different
\* values
C16_DuplicateName ==
    /\ call.op = "AciPayments" /\ ret.ok /\ call.response.redirect # NoneRec
    /\ Len(call.response.redirect.parameters) = 2
    /\ call.response.redirect.parameters[1].name
           = call.response.redirect.parameters[2].name
    /\ call.response.redirect.parameters[1].value
           # call.response.redirect.parameters[2].value
    /\ rd.response.val.redirection_data.form_fields["PaReq"] = "abc"

\* C17: every response translation that returns a RouterData returns one that
\* differs from its input at most in response and status; request,
\* connector_request_reference_id, reference_id and the other fields are
\* unchanged, and a refund translation leaves status unchanged as well.
C17_CarryTheRest ==
    [][ret'.ok =>
          /\ [rd' EXCEPT !.response = rd.response, !.status = rd.status] = rd
          /\ call'.op \in RefundOps => rd'.status = rd.status]_vars

-----------------------------------------------------------------------------
(* Properties of the webhook, of errors and of mandates.                    *)

\* C18: translating the response made from a Noon webhook object gives the
\* same result (attempt status and response: Ok or Err, resource id,
\* connector_response_reference_id, mandate reference) as translating, from
\* the same input RouterData, any sync response the connector returns for an
\* order with that id and status.
C18_WebhookSyncConvergence ==
    [][(call'.op = "NoonWebhook" /\ ret.ok) =>
          \A response \in NoonPaymentsResponse :
              (/\ response.order.status = call'.response.order_status
               /\ response.order.id = call'.response.order_id)
              => NoonPaymentsTryFrom(rd, response) = ret']_vars

\* C19: every translation leaves exactly one of Ok data and an error in
\* response; for Noon, Ok(TransactionResponse) is returned only when the
\* order has error_code 0 and no error_message, and an error carries the
\* order's error_code as code, the mapped status as attempt_status and the
\* order id as connector_transaction_id.
C19_ErrorResponseExclusivity ==
    (call.op # "none" /\ ret.ok) =>
        /\ rd.response.ok <=> "kind" \in DOMAIN rd.response.val
        /\ ~rd.response.ok <=> "code" \in DOMAIN rd.response.val
        /\ call.op = "NoonPayments" =>
              LET order == call.response.order
              IN /\ rd.response.ok =>
                        /\ rd.response.val.kind = "TransactionResponse"
                        /\ order.error_code = 0
                        /\ order.error_message = "None"
                 /\ ~rd.response.ok =>
                        /\ rd.response.val.code = to_string(order.error_code)
                        /\ rd.response.val.attempt_status = rd.status
                        /\ rd.response.val.connector_transaction_id
                               = to_string(order.id)

-----------------------------------------------------------------------------
(* A mandate: an authorize attempt at a connector that supports mandates,   *)
(* whose responses are translated and whose stored mandate reference is     *)
(* then read back into a merchant-initiated authorize request.              *)

\* the connectors whose translators build a MandateReference
InitMandate ==
    /\ \E c \in {"aci", "nexinets", "noon", "globalpay"}, st \in AttemptStatus :
         \E rq \in FlowRequests(c, "Authorize") :
             rd = NewRouterData(c, "Authorize", rq, st)
                      @@ [connector_auth_type |->
                              AuthType("BodyKey", <<115>>, <<109>>, <<>>, <<>>)]
    /\ call = NoCall
    /\ ret = Ok("none")

\* the authorize request of a merchant-initiated payment on the mandate a
\* successful response set up: its mandate_id is the connector_mandate_id
\* stored in the MandateReference, and the connector's builder is run on it
MandatePayment ==
    /\ call.op \in {"AciPayments", "NexinetsPreAuthOrDebit", "NoonPayments",
                    "GlobalpayPayments"}
    /\ ret.ok
    /\ rd.status \in {"Authorized", "Charged"}
    /\ rd.response.ok
    /\ rd.response.val.mandate_reference # NoneRec
    /\ \E request \in PaymentsAuthorizeData(rd.connector) :
         /\ request.mandate_id =
                [kind |-> "Some",
                 connector_mandate_id |->
                     rd.response.val.mandate_reference.connector_mandate_id]
         /\ "setup_mandate_details" \in DOMAIN request => ~request.setup_mandate_details
         /\ "off_session" \in DOMAIN request => request.off_session = "true"
         /\ call' = [op |-> "MandatePayment", connector |-> rd.connector,
                     request |-> request]
         /\ ret' = (CASE rd.connector = "aci" -> AciPaymentsRequestTryFrom(rd, request)
                      [] rd.connector = "nexinets" ->
                           NexinetsPaymentsRequestTryFrom(rd, request)
                      [] rd.connector = "noon" -> NoonPaymentsRequestTryFrom(rd, request)
                      [] rd.connector = "globalpay" ->
                           GlobalpayPaymentsRequestTryFrom(rd, request))
         /\ UNCHANGED rd

\* the request built belongs to a new attempt: the responses to the attempt
\* that set the mandate up have all been translated by then
NextMandate ==
    \/ call.op # "MandatePayment" /\ AciPayments
    \/ call.op # "MandatePayment" /\ NexinetsPreAuthOrDebit
    \/ call.op # "MandatePayment" /\ NoonPayments
    \/ call.op # "MandatePayment" /\ GlobalpayPayments
    \/ MandatePayment

SpecMandate == InitMandate /\ [][NextMandate]_vars

\* the identifier the response of the last translation carries
ResponseMandateId ==
    CASE call.op = "AciPayments" -> call.response.registration_id
      [] call.op = "NexinetsPreAuthOrDebit" -> call.response.payment_instrument_id
      [] call.op = "NoonPayments" -> call.response.subscription
      [] call.op = "GlobalpayPayments" ->
           IF call.response.payment_method = NoneRec THEN "None"
           ELSE call.response.payment_method.brand_reference
      [] OTHER -> "None"

\* the translation stored the response's identifier, and nothing without one
MandateStored ==
    (call.op \in {"AciPayments", "NexinetsPreAuthOrDebit", "NoonPayments",
                  "GlobalpayPayments"} /\ ret.ok /\ rd.response.ok) =>
        rd.response.val.mandate_reference =
            IF ResponseMandateId = "None" THEN NoneRec
            ELSE MandateReference(ResponseMandateId)

\* the stored-credential identifier of a built wire request
StoredCredentialId(connector, request) ==
    CASE connector = "aci" ->
           IF "registration_id" \in DOMAIN request.payment_method
           THEN request.payment_method.registration_id ELSE "None"
      [] connector = "nexinets" ->
           IF request.payment.kind = "Card"
           THEN request.payment.card_data.payment_instrument_id ELSE "None"
      [] connector = "noon" ->
           IF request.payment_data.kind = "Subscription"
           THEN request.payment_data.subscription_identifier ELSE "None"
      [] connector = "globalpay" ->
           IF request.payment_method_data.kind = "Card"
           THEN request.payment_method_data.brand_reference ELSE "None"

-----------------------------------------------------------------------------
(* Properties of missing fields, of rebuilding and of amounts.              *)

\* C21: building an authorize request for BankRedirect Ideal without a bank
\* name fails with MissingRequiredField at every connector that supports
\* Ideal (at ACI, whose credentials resolve and whose billing country is
\* given, with field_name "ideal.bank_name"), the missing name never being
\* encoded as an absent value; and building an ACI request for MandatePayment
\* without a mandate_id fails with MissingRequiredField{"mandate_id"}.
C21_MissingFieldReported ==
    /\ (/\ call.op \in {"AciPaymentsRequest", "NexinetsPaymentsRequest",
                        "GlobalpayPaymentsRequest"}
        /\ call.request.payment_method_data.kind = "BankRedirect"
        /\ call.request.payment_method_data.sub = "Ideal"
        /\ call.request.payment_method_data.bank_name = "None"
        /\ call.op = "AciPaymentsRequest" =>
               AciAuthTypeTryFrom(rd.connector_auth_type).ok
        /\ call.op = "GlobalpayPaymentsRequest" =>
               call.request.connector_meta_data = "valid")
       => /\ ~ret.ok
          /\ ret.val.kind = "MissingRequiredField"
          /\ (call.op = "AciPaymentsRequest" /\ call.request.billing_country # "None")
                 => ret.val.detail = "ideal.bank_name"
    /\ (/\ call.op = "AciPaymentsRequest"
        /\ call.request.payment_method_data.kind = "MandatePayment"
        /\ call.request.mandate_id = NoneRec)
       => ret = MissingRequiredField("mandate_id")

WireAmount ==
    CASE call.op \in {"AciPaymentsRequest", "AciCaptureRequest"} ->
           ret.val.txn_details.amount
      [] call.op \in {"FiservPaymentsRequest", "FiservCaptureRequest",
                      "FiservRefundRequest"} -> ret.val.amount.total
      [] call.op \in {"NexinetsPaymentsRequest", "NexinetsCaptureRequest",
                      "NexinetsCancelRequest", "NexinetsRefundRequest"} ->
           ret.val.initial_amount
      [] call.op = "NoonPaymentsRequest" -> ret.val.order.amount
      [] call.op \in {"NoonCaptureRequest", "NoonRefundRequest"} ->
           ret.val.transaction.amount
      [] OTHER -> ret.val.amount

\* the amount a builder was given
GivenAmount ==
    CASE call.op = "NexinetsCaptureRequest" -> call.request.amount_to_capture
      [] call.op = "NexinetsCancelRequest" -> call.request.amount.val
      [] call.op = "NexinetsRefundRequest" -> call.request.refund_amount
      [] OTHER -> call.request.amount

C24_OrderNameSanitised ==
    (call.op = "NoonPaymentsRequest" /\ ret.ok) =>
        LET name == ret.val.order.name
        IN /\ Len(name) <= 50
           /\ name # <<>> => (name[1] # " " /\ name[Len(name)] # " ")
           /\ \A i \in 1..(Len(name) - 1) : ~(name[i] = " " /\ name[i + 1] = " ")
           /\ ret.val.subscription # NoneRec => ret.val.subscription.name = name

\* C29: a Nexinets card mandate payment made off-session carries the stored
\* credential: the built card payload is a PaymentInstrument holding the
\* request's connector mandate id with an Unscheduled cofContract, and no
\* PaymentInstrument payload is built with an absent id.
C29_StoredCredentialCarried ==
    (/\ call.op = "NexinetsPaymentsRequest"
     /\ call.request.payment_method_data.kind = "Card"
     /\ ret.ok) =>
        LET card == ret.val.payment
        IN /\ (is_mandate_payment(call.request) /\ call.request.off_session = "true") =>
                  /\ card.card_data.kind = "PaymentInstrument"
                  /\ card.card_data.payment_instrument_id = connector_mandate_id(call.request)
                  /\ card.cof_contract = "Unscheduled"
           /\ card.card_data.kind = "PaymentInstrument" =>
                  card.card_data.payment_instrument_id # "None"

\* C30: the Fiserv authorize builder never returns a Google Pay source built
\* from a token that cannot be parsed: when the token, its signedKey or its
\* signedMessage is not the expected JSON the builder fails, and a built
\* Google Pay source has no empty data, signature, version or key.
C30_NoSourceFromUnparseableToken ==
    (/\ call.op = "FiservPaymentsRequest"
     /\ ret.ok
     /\ ret.val.source.kind = "GooglePay") =>
        /\ call.request.token.json
        /\ call.request.token.signed_key.json
        /\ call.request.token.signed_message.json
        /\ ret.val.source.data # <<>>
        /\ ret.val.source.signature # <<>>
        /\ ret.val.source.version # <<>>
        /\ ret.val.source.intermediate_signing_key.signed_key.key_value # <<>>

-----------------------------------------------------------------------------
(* Vault data of a payment                                                  *)

\* VaultData::get_card_vault_data
get_card_vault_data(vault_data) ==
    CASE vault_data.kind = "Card" -> Some(vault_data.card_data)
      [] vault_data.kind = "NetworkToken" -> NoneRec
      [] vault_data.kind = "CardAndNetworkToken" -> Some(vault_data.card_data)

\* VaultData::get_network_token_data
get_network_token_data(vault_data) ==
    CASE vault_data.kind = "Card" -> NoneRec
      [] vault_data.kind = "NetworkToken" -> Some(vault_data.network_token_data)
      [] vault_data.kind = "CardAndNetworkToken" -> Some(vault_data.network_token_data)

\* the update dropping the card when a network token arrives
get_updated_vault_data_token_only(existing_vault_data, payment_method_data) ==
    LET ExistingVaultData(vault_data) ==
            [kind |-> "ExistingVaultData", vault_data |-> vault_data]
        Card(card) == [kind |-> "Card", card_data |-> card]
        NetworkToken(nt_data) == [kind |-> "NetworkToken", network_token_data |-> nt_data]
        CardAndNetworkToken(card, nt_data) ==
            [kind |-> "CardAndNetworkToken", card_data |-> card,
             network_token_data |-> nt_data]
    IN CASE existing_vault_data = NoneRec /\ payment_method_data.kind = "Card" ->
              ExistingVaultData(Card(payment_method_data.data))
         [] existing_vault_data = NoneRec /\ payment_method_data.kind = "NetworkToken" ->
              ExistingVaultData(NetworkToken(payment_method_data.data))
         [] existing_vault_data.kind = "ExistingVaultData" ->
              LET vault_data == existing_vault_data.vault_data
              IN CASE vault_data.kind = "Card"
                          /\ payment_method_data.kind = "NetworkToken" ->
                        ExistingVaultData(NetworkToken(payment_method_data.data))
                   [] vault_data.kind = "NetworkToken"
                          /\ payment_method_data.kind = "Card" ->
                        ExistingVaultData(
                            CardAndNetworkToken(payment_method_data.data,
                                                vault_data.network_token_data))
                   [] OTHER -> ExistingVaultData(vault_data)
         [] OTHER -> NoneRec

\* VaultOperation::get_updated_vault_data
get_updated_vault_data(existing_vault_data, payment_method_data) ==
    LET ExistingVaultData(vault_data) ==
            [kind |-> "ExistingVaultData", vault_data |-> vault_data]
        Card(card) == [kind |-> "Card", card_data |-> card]
        NetworkToken(nt_data) == [kind |-> "NetworkToken", network_token_data |-> nt_data]
        CardAndNetworkToken(card, nt_data) ==
            [kind |-> "CardAndNetworkToken", card_data |-> card,
             network_token_data |-> nt_data]
    IN CASE existing_vault_data = NoneRec /\ payment_method_data.kind = "Card" ->
              ExistingVaultData(Card(payment_method_data.data))
         [] existing_vault_data = NoneRec /\ payment_method_data.kind = "NetworkToken" ->
              ExistingVaultData(NetworkToken(payment_method_data.data))
         [] existing_vault_data.kind = "ExistingVaultData" ->
              LET vault_data == existing_vault_data.vault_data
              IN CASE vault_data.kind = "Card"
                          /\ payment_method_data.kind = "NetworkToken" ->
                        ExistingVaultData(
                            CardAndNetworkToken(vault_data.card_data,
                                                payment_method_data.data))
                   [] vault_data.kind = "NetworkToken"
                          /\ payment_method_data.kind = "Card" ->
                        ExistingVaultData(
                            CardAndNetworkToken(payment_method_data.data,
                                                vault_data.network_token_data))
                   [] OTHER -> ExistingVaultData(vault_data)
         [] OTHER -> NoneRec

\* a payment with no vault data and no payment method data applied yet
InitVault ==
    /\ rd = [vault_operation |-> NoneRec]
    /\ call = [op |-> "None", payment_method_data |-> <<>>]
    /\ ret = NoneRec

\* get_updated_vault_data applied to the payment's vault operation and one
\* more payment method data, the result becoming the payment's vault operation
UpdateVaultData ==
    /\ Len(call.payment_method_data) < MaxUpdates
    /\ \E payment_method_data \in
           [kind : {"Card"}, data : {"card1", "card2"}]
           \cup [kind : {"NetworkToken"}, data : {"token1", "token2"}]
           \cup [kind : {"Wallet"}, data : {"wallet1"}] :
         /\ call' = [op |-> "get_updated_vault_data",
                     payment_method_data |->
                         Append(call.payment_method_data, payment_method_data)]
         /\ ret' = get_updated_vault_data(rd.vault_operation, payment_method_data)
         /\ rd' = [vault_operation |-> ret']

NextVault ==
    \/ UpdateVaultData

SpecVault == InitVault /\ [][NextVault]_vars

\* C28: vault data accumulates: an update with a card or a network token
\* yields ExistingVaultData; a card or a network token once held is held
\* unchanged after every later update, whatever the payment method data; the
\* vault data is CardAndNetworkToken exactly when both a card and a network
\* token have been applied.
C28_VaultAccumulates ==
    [][LET before == rd.vault_operation
           after == rd'.vault_operation
           applied == call'.payment_method_data[Len(call'.payment_method_data)]
       IN /\ applied.kind \in {"Card", "NetworkToken"} => after.kind = "ExistingVaultData"
          /\ before # NoneRec =>
                /\ after.kind = "ExistingVaultData"
                /\ get_card_vault_data(before.vault_data) # NoneRec =>
                       get_card_vault_data(after.vault_data)
                           = get_card_vault_data(before.vault_data)
                /\ get_network_token_data(before.vault_data) # NoneRec =>
                       get_network_token_data(after.vault_data)
                           = get_network_token_data(before.vault_data)
          /\ (after # NoneRec /\ after.vault_data.kind = "CardAndNetworkToken")
                <=> {"Card", "NetworkToken"} \subseteq
                        {call'.payment_method_data[i].kind :
                            i \in DOMAIN call'.payment_method_data}]_vars

\* a card, then a network token, then another card: the first card is kept
C28_SecondCardIgnored ==
    /\ call.op = "get_updated_vault_data"
    /\ call.payment_method_data =
           <<[kind |-> "Card", data |-> "card1"],
             [kind |-> "NetworkToken", data |-> "token1"],
             [kind |-> "Card", data |-> "card2"]>>
    /\ rd.vault_operation =
           [kind |-> "ExistingVaultData",
            vault_data |-> [kind |-> "CardAndNetworkToken", card_data |-> "card1",
                            network_token_data |-> "token1"]]

-----------------------------------------------------------------------------
(* The theme store of MockDb                                                *)

\* the clients calling the store at the same time
Clients == {1, 2}

\* ThemeLineage: one tenant with two organizations, a merchant and a profile
\* under the first
ThemeLineages ==
    {[kind |-> "Tenant", tenant_id |-> "ten1", org_id |-> "None",
      merchant_id |-> "None", profile_id |-> "None"],
     [kind |-> "Organization", tenant_id |-> "ten1", org_id |-> "org1",
      merchant_id |-> "None", profile_id |-> "None"],
     [kind |-> "Organization", tenant_id |-> "ten1", org_id |-> "org2",
      merchant_id |-> "None", profile_id |-> "None"],
     [kind |-> "Merchant", tenant_id |-> "ten1", org_id |-> "org1",
      merchant_id |-> "mer1", profile_id |-> "None"],
     [kind |-> "Profile", tenant_id |-> "ten1", org_id |-> "org1",
      merchant_id |-> "mer1", profile_id |-> "pro1"]}

\* ThemeLineage::get_same_and_higher_lineages
get_same_and_higher_lineages(lineage) ==
    LET Tenant == [kind |-> "Tenant", tenant_id |-> lineage.tenant_id,
                   org_id |-> "None", merchant_id |-> "None", profile_id |-> "None"]
        Organization == [Tenant EXCEPT !.kind = "Organization",
                                       !.org_id = lineage.org_id]
        Merchant == [Organization EXCEPT !.kind = "Merchant",
                                         !.merchant_id = lineage.merchant_id]
    IN CASE lineage.kind = "Tenant" -> <<lineage>>
         [] lineage.kind = "Organization" -> <<Tenant, lineage>>
         [] lineage.kind = "Merchant" -> <<Tenant, Organization, lineage>>
         [] lineage.kind = "Profile" -> <<Tenant, Organization, Merchant, lineage>>

\* the check that keeps the themes anywhere under the lineage
check_theme_with_lineage_and_under(theme, lineage) ==
    CASE lineage.kind = "Tenant" ->
           theme.tenant_id = lineage.tenant_id
      [] lineage.kind = "Organization" ->
           /\ theme.tenant_id = lineage.tenant_id
           /\ theme.org_id # "None" /\ theme.org_id = lineage.org_id
      [] lineage.kind = "Merchant" ->
           /\ theme.tenant_id = lineage.tenant_id
           /\ theme.org_id # "None" /\ theme.org_id = lineage.org_id
           /\ theme.merchant_id # "None" /\ theme.merchant_id = lineage.merchant_id
      [] lineage.kind = "Profile" ->
           /\ theme.tenant_id = lineage.tenant_id
           /\ theme.org_id # "None" /\ theme.org_id = lineage.org_id
           /\ theme.merchant_id # "None" /\ theme.merchant_id = lineage.merchant_id
           /\ theme.profile_id # "None" /\ theme.profile_id = lineage.profile_id

\* check_theme_with_lineage
check_theme_with_lineage(theme, lineage) ==
    CASE lineage.kind = "Tenant" ->
           /\ theme.tenant_id = lineage.tenant_id
           /\ theme.org_id = "None"
           /\ theme.merchant_id = "None"
           /\ theme.profile_id = "None"
      [] lineage.kind = "Organization" ->
           /\ theme.tenant_id = lineage.tenant_id
           /\ theme.org_id # "None" /\ theme.org_id = lineage.org_id
           /\ theme.merchant_id = "None"
           /\ theme.profile_id = "None"
      [] lineage.kind = "Merchant" ->
           /\ theme.tenant_id = lineage.tenant_id
           /\ theme.org_id # "None" /\ theme.org_id = lineage.org_id
           /\ theme.merchant_id # "None" /\ theme.merchant_id = lineage.merchant_id
           /\ theme.profile_id = "None"
      [] lineage.kind = "Profile" ->
           /\ theme.tenant_id = lineage.tenant_id
           /\ theme.org_id # "None" /\ theme.org_id = lineage.org_id
           /\ theme.merchant_id # "None" /\ theme.merchant_id = lineage.merchant_id
           /\ theme.profile_id # "None" /\ theme.profile_id = lineage.profile_id

\* an empty store and no client calling
InitTheme ==
    /\ rd = [themes |-> <<>>]
    /\ call = [client \in Clients |->
                   [op |-> "None", state |-> "idle", n |-> 0,
                    waiting |-> [other \in Clients |-> 0]]]
    /\ ret = [client \in Clients |-> NoneRec]

\* a client calls the store and waits for the lock on the themes: an insert
\* of a ThemeNew made from an id and a lineage, an update of the email
\* configuration, a delete or a lookup
CallThemeInterface(client) ==
    /\ call[client].state # "pending"
    /\ call[client].n < MaxCalls
    /\ \E request \in
           {[op |-> "insert_theme",
             new_theme |->
                 [theme_id |-> theme_id, tenant_id |-> lineage.tenant_id,
                  org_id |-> lineage.org_id, merchant_id |-> lineage.merchant_id,
                  profile_id |-> lineage.profile_id, created_at |-> 1,
                  last_modified_at |-> 1, entity_type |-> lineage.kind,
                  theme_name |-> "theme", email_primary_color |-> "a1",
                  email_foreground_color |-> "a2", email_background_color |-> "a3",
                  email_entity_name |-> "a4", email_entity_logo_url |-> "a5"]] :
                theme_id \in {"t1", "t2"}, lineage \in ThemeLineages}
           \cup [op : {"update_theme_by_theme_id"}, theme_id : {"t1", "t2"},
                 email_config : {[primary_color |-> "b1", foreground_color |-> "b2",
                                  background_color |-> "b3", entity_name |-> "b4",
                                  entity_logo_url |-> "b5"]}]
           \cup [op : {"delete_theme_by_theme_id"}, theme_id : {"t1", "t2"}]
           \cup [op : {"find_most_specific_theme_in_lineage"},
                 lineage : ThemeLineages] :
         call' = [call EXCEPT ![client] =
                      request @@ [state |-> "pending", n |-> call[client].n + 1,
                                  waiting |-> [other \in Clients |-> 0]]]
    /\ UNCHANGED <<rd, ret>>

\* the calls of the other clients that wait for the lock while a client's
\* call runs: for each client the number of its waiting call, or 0
Waiting(client) ==
    [other \in Clients |->
        IF other # client /\ call[other].state = "pending" THEN call[other].n ELSE 0]

\* the insert comparing theme ids only
insert_theme_by_id_only(client) ==
    /\ call[client].op = "insert_theme"
    /\ call[client].state = "pending"
    /\ LET themes == rd.themes
           new_theme == call[client].new_theme
           same_id(theme) == new_theme.theme_id = theme.theme_id
           same_lineage(theme) ==
               /\ new_theme.tenant_id = theme.tenant_id
               /\ new_theme.org_id = theme.org_id
               /\ new_theme.merchant_id = theme.merchant_id
               /\ new_theme.profile_id = theme.profile_id
           clashes == {i \in DOMAIN themes : same_id(themes[i])}
           first == CHOOSE i \in clashes : \A j \in clashes : i <= j
       IN IF clashes # {}
          THEN /\ ret' = [ret EXCEPT ![client] =
                              Err([kind |-> "DuplicateValue",
                                   entity |-> IF same_id(themes[first])
                                              THEN "theme_id" ELSE "lineage"])]
               /\ rd' = rd
          ELSE /\ ret' = [ret EXCEPT ![client] = Ok(new_theme)]
               /\ rd' = [themes |-> Append(themes, new_theme)]
    /\ call' = [call EXCEPT ![client].state = "done",
                            ![client].waiting = Waiting(client)]

\* MockDb::insert_theme, run under the lock on the themes
insert_theme(client) ==
    /\ call[client].op = "insert_theme"
    /\ call[client].state = "pending"
    /\ LET themes == rd.themes
           new_theme == call[client].new_theme
           same_id(theme) == new_theme.theme_id = theme.theme_id
           same_lineage(theme) ==
               /\ new_theme.tenant_id = theme.tenant_id
               /\ new_theme.org_id = theme.org_id
               /\ new_theme.merchant_id = theme.merchant_id
               /\ new_theme.profile_id = theme.profile_id
           clashes == {i \in DOMAIN themes : same_id(themes[i]) \/ same_lineage(themes[i])}
           first == CHOOSE i \in clashes : \A j \in clashes : i <= j
       IN IF clashes # {}
          THEN /\ ret' = [ret EXCEPT ![client] =
                              Err([kind |-> "DuplicateValue",
                                   entity |-> IF same_id(themes[first])
                                              THEN "theme_id" ELSE "lineage"])]
               /\ rd' = rd
          ELSE /\ ret' = [ret EXCEPT ![client] = Ok(new_theme)]
               /\ rd' = [themes |-> Append(themes, new_theme)]
    /\ call' = [call EXCEPT ![client].state = "done",
                            ![client].waiting = Waiting(client)]

\* MockDb::find_most_specific_theme_in_lineage, run under the lock on the
\* themes; EntityType orders Profile < Merchant < Organization < Tenant, and
\* min_by_key returns the first of the least
find_most_specific_theme_in_lineage(client) ==
    /\ call[client].op = "find_most_specific_theme_in_lineage"
    /\ call[client].state = "pending"
    /\ LET themes == rd.themes
           lineages == get_same_and_higher_lineages(call[client].lineage)
           key(entity_type) ==
               CASE entity_type = "Profile" -> 0
                 [] entity_type = "Merchant" -> 1
                 [] entity_type = "Organization" -> 2
                 [] entity_type = "Tenant" -> 3
           filtered == {i \in DOMAIN themes :
                           \E l \in DOMAIN lineages :
                               check_theme_with_lineage(themes[i], lineages[l])}
           least == CHOOSE i \in filtered :
                        \A j \in filtered :
                            \/ key(themes[i].entity_type) < key(themes[j].entity_type)
                            \/ /\ key(themes[i].entity_type) = key(themes[j].entity_type)
                               /\ i <= j
       IN ret' = [ret EXCEPT ![client] =
                      IF filtered = {}
                      THEN Err([kind |-> "ValueNotFound",
                                entity |-> "No theme found in lineage"])
                      ELSE Ok(themes[least])]
    /\ call' = [call EXCEPT ![client].state = "done",
                            ![client].waiting = Waiting(client)]
    /\ UNCHANGED rd

\* the update stamping the modification time as well
update_theme_by_theme_id_stamped(client) ==
    /\ call[client].op = "update_theme_by_theme_id"
    /\ call[client].state = "pending"
    /\ LET themes == rd.themes
           theme_id == call[client].theme_id
           email_config == call[client].email_config
           found == {i \in DOMAIN themes : themes[i].theme_id = theme_id}
           first == CHOOSE i \in found : \A j \in found : i <= j
           theme == [themes[first] EXCEPT
                         !.last_modified_at = 2,
                         !.email_primary_color = email_config.primary_color,
                         !.email_foreground_color = email_config.foreground_color,
                         !.email_background_color = email_config.background_color,
                         !.email_entity_name = email_config.entity_name,
                         !.email_entity_logo_url = email_config.entity_logo_url]
       IN IF found = {}
          THEN /\ ret' = [ret EXCEPT ![client] =
                              Err([kind |-> "ValueNotFound", entity |-> theme_id])]
               /\ rd' = rd
          ELSE /\ ret' = [ret EXCEPT ![client] = Ok(theme)]
               /\ rd' = [themes |-> [themes EXCEPT ![first] = theme]]
    /\ call' = [call EXCEPT ![client].state = "done",
                            ![client].waiting = Waiting(client)]

\* MockDb::update_theme_by_theme_id, run under the lock on the themes
update_theme_by_theme_id(client) ==
    /\ call[client].op = "update_theme_by_theme_id"
    /\ call[client].state = "pending"
    /\ LET themes == rd.themes
           theme_id == call[client].theme_id
           email_config == call[client].email_config
           found == {i \in DOMAIN themes : themes[i].theme_id = theme_id}
           first == CHOOSE i \in found : \A j \in found : i <= j
           theme == [themes[first] EXCEPT
                         !.email_primary_color = email_config.primary_color,
                         !.email_foreground_color = email_config.foreground_color,
                         !.email_background_color = email_config.background_color,
                         !.email_entity_name = email_config.entity_name,
                         !.email_entity_logo_url = email_config.entity_logo_url]
       IN IF found = {}
          THEN /\ ret' = [ret EXCEPT ![client] =
                              Err([kind |-> "ValueNotFound", entity |-> theme_id])]
               /\ rd' = rd
          ELSE /\ ret' = [ret EXCEPT ![client] = Ok(theme)]
               /\ rd' = [themes |-> [themes EXCEPT ![first] = theme]]
    /\ call' = [call EXCEPT ![client].state = "done",
                            ![client].waiting = Waiting(client)]

\* MockDb::delete_theme_by_theme_id, run under the lock on the themes
delete_theme_by_theme_id(client) ==
    /\ call[client].op = "delete_theme_by_theme_id"
    /\ call[client].state = "pending"
    /\ LET themes == rd.themes
           theme_id == call[client].theme_id
           found == {i \in DOMAIN themes : themes[i].theme_id = theme_id}
           index == CHOOSE i \in found : \A j \in found : i <= j
       IN IF found = {}
          THEN /\ ret' = [ret EXCEPT ![client] =
                              Err([kind |-> "ValueNotFound", entity |-> theme_id])]
               /\ rd' = rd
          ELSE /\ ret' = [ret EXCEPT ![client] = Ok(themes[index])]
               /\ rd' = [themes |-> SubSeq(themes, 1, index - 1)
                                        \o SubSeq(themes, index + 1, Len(themes))]
    /\ call' = [call EXCEPT ![client].state = "done",
                            ![client].waiting = Waiting(client)]

NextTheme ==
    \/ \E client \in Clients : CallThemeInterface(client)
    \/ \E client \in Clients : insert_theme(client)
    \/ \E client \in Clients : find_most_specific_theme_in_lineage(client)
    \/ \E client \in Clients : update_theme_by_theme_id(client)
    \/ \E client \in Clients : delete_theme_by_theme_id(client)

SpecTheme == InitTheme /\ [][NextTheme]_vars

\* the lineage tuple of a stored theme
LineageOf(theme) ==
    <<theme.tenant_id, theme.org_id, theme.merchant_id, theme.profile_id>>

\* no two stored themes share a theme_id or a lineage tuple
ThemesUnique(themes) ==
    \A i, j \in DOMAIN themes :
        i # j => /\ themes[i].theme_id # themes[j].theme_id
                 /\ LineageOf(themes[i]) # LineageOf(themes[j])

\* two finished inserts of themes with the same theme_id or the same lineage,
\* the second of which waited for the lock while the first ran
ConcurrentInserts(first, second) ==
    /\ first # second
    /\ call[first].op = "insert_theme" /\ call[first].state = "done"
    /\ call[second].op = "insert_theme" /\ call[second].state = "done"
    /\ call[first].waiting[second] = call[second].n
    /\ \/ call[first].new_theme.theme_id = call[second].new_theme.theme_id
       \/ LineageOf(call[first].new_theme) = LineageOf(call[second].new_theme)

IsDuplicateValue(result) == ~result.ok /\ result.val.kind = "DuplicateValue"

Runs(client, op) ==
    /\ call[client].op = op
    /\ call[client].state = "pending"
    /\ call'[client].state = "done"

StoredIds(themes) == {themes[i].theme_id : i \in DOMAIN themes}

\* C26: a call that fails leaves the stored themes as they were: an insert is
\* rejected with DuplicateValue only, an update or a delete fails with
\* ValueNotFound exactly for a theme_id that is not stored; a successful
\* delete removes the theme with that id and no other and returns it; a
\* successful update changes the five email fields of that theme and nothing
\* else.
C26_ErrorKeepsStoreSuccessIsLocal ==
    [][\A client \in Clients :
          /\ Runs(client, "insert_theme") =>
                 /\ ~ret'[client].ok =>
                        IsDuplicateValue(ret'[client]) /\ rd'.themes = rd.themes
          /\ (Runs(client, "update_theme_by_theme_id")
              \/ Runs(client, "delete_theme_by_theme_id")) =>
                 /\ ret'[client].ok <=> call[client].theme_id \in StoredIds(rd.themes)
                 /\ ~ret'[client].ok =>
                        /\ ret'[client].val.kind = "ValueNotFound"
                        /\ rd'.themes = rd.themes
          /\ (Runs(client, "delete_theme_by_theme_id") /\ ret'[client].ok) =>
                 LET kept(theme) == theme.theme_id # call[client].theme_id
                 IN /\ rd'.themes = SelectSeq(rd.themes, kept)
                    /\ Len(rd'.themes) = Len(rd.themes) - 1
                    /\ ret'[client].val.theme_id = call[client].theme_id
                    /\ \E i \in DOMAIN rd.themes : rd.themes[i] = ret'[client].val
          /\ (Runs(client, "update_theme_by_theme_id") /\ ret'[client].ok) =>
                 /\ Len(rd'.themes) = Len(rd.themes)
                 /\ \A i \in DOMAIN rd.themes :
                        IF rd.themes[i].theme_id = call[client].theme_id
                        THEN /\ ret'[client].val = rd'.themes[i]
                             /\ [rd'.themes[i] EXCEPT
                                     !.email_primary_color =
                                         rd.themes[i].email_primary_color,
                                     !.email_foreground_color =
                                         rd.themes[i].email_foreground_color,
                                     !.email_background_color =
                                         rd.themes[i].email_background_color,
                                     !.email_entity_name =
                                         rd.themes[i].email_entity_name,
                                     !.email_entity_logo_url =
                                         rd.themes[i].email_entity_logo_url]
                                    = rd.themes[i]
                        ELSE rd'.themes[i] = rd.themes[i]]_vars

\* an update of one of two stored themes: its email fields changed, the other
\* theme as inserted
C26_OneOfTwoUpdated ==
    \E client \in Clients :
        /\ call[client].op = "update_theme_by_theme_id"
        /\ call[client].state = "done"
        /\ ret[client].ok
        /\ Len(rd.themes) = 2
        /\ \E i, j \in DOMAIN rd.themes :
               /\ rd.themes[i].theme_id = call[client].theme_id
               /\ rd.themes[i].email_primary_color = "b1"
               /\ rd.themes[i].last_modified_at = 1
               /\ rd.themes[j].email_primary_color = "a1"

\* the levels of a lineage that are named: 1 for a tenant to 4 for a profile
Depth(lineage) ==
    Cardinality({k \in 1..4 : LineageOf(lineage)[k] # "None"})

\* the lineage cut back to its first levels
CutTo(lineage, depth) ==
    [k \in 1..4 |-> IF k <= depth THEN LineageOf(lineage)[k] ELSE "None"]

\* the stored themes at the lineage or at one of its ancestors
AtOrAbove(themes, lineage) ==
    {i \in DOMAIN themes :
        \E depth \in 1..Depth(lineage) :
            LineageOf(themes[i]) = CutTo(lineage, depth)}

\* C27: find_most_specific_theme_in_lineage returns a stored theme whose
\* lineage is the given one or one of its ancestors and that is at the most
\* specific such level, and returns ValueNotFound exactly when no stored
\* theme is at one of those levels; a theme at a more specific level or in
\* another branch is not returned.
C27_MostSpecificInLineage ==
    [][\A client \in Clients :
          Runs(client, "find_most_specific_theme_in_lineage") =>
              LET matching == AtOrAbove(rd.themes, call[client].lineage)
              IN /\ ret'[client].ok <=> matching # {}
                 /\ ~ret'[client].ok => ret'[client].val.kind = "ValueNotFound"
                 /\ ret'[client].ok =>
                        \E i \in matching :
                            /\ ret'[client].val = rd.themes[i]
                            /\ \A j \in matching :
                                   Depth(rd.themes[j]) <= Depth(rd.themes[i])
                 /\ rd' = rd]_vars

\* a lookup for a profile with themes stored for its tenant and its merchant:
\* the merchant's theme is returned
C27_MerchantThemeForProfile ==
    \E client \in Clients :
        /\ call[client].op = "find_most_specific_theme_in_lineage"
        /\ call[client].state = "done"
        /\ call[client].lineage.kind = "Profile"
        /\ ret[client].ok
        /\ ret[client].val.entity_type = "Merchant"
        /\ \E i \in DOMAIN rd.themes : rd.themes[i].entity_type = "Tenant"

====
